---- MODULE Spec2Model ----
(***************************************************************************)
(* Strategy evaluation and signal-state engine of the Boros alert bot.     *)
(*                                                                         *)
(*   src/strats.py        SimpleDirectionalStrategy (position store and    *)
(*                        the NONE/LONG/SHORT state machine),              *)
(*                        ImpliedAPRBandStrategy, StrategyManager          *)
(*                        (evaluation of all strategies, admission,        *)
(*                        execution)                                       *)
(*   src/strategy_bot.py  StrategyAlertBot (alert gate: cooldown map;      *)
(*                        analysis pass over the records of rates.json;    *)
(*                        delivery to the webhook)                         *)
(*                                                                         *)
(* Specifications: SpecDirectional (evaluations one after another),        *)
(* SpecStore (the same with the store cleared or damaged from outside),    *)
(* SpecOverlap (two passes sharing the store), SpecGate (the alert gate),  *)
(* SpecManager (admission and execution), SpecPass (the bot's loop),       *)
(* SpecBands (the band strategy under a configuration), SpecEngine (all    *)
(* strategies, execution, monitoring, summary and the gate on one store),  *)
(* SpecMonitor (monitoring of positions as they age), SpecBatch (the       *)
(* bot's loop on several records per symbol), SpecCycle (the bot's loop    *)
(* while a symbol is entered, left and entered again), SpecAdmit           *)
(* (executions admitted by the filter, and the portfolio summary),         *)
(* SpecFilter (the directional strategy's opportunities at the filter).    *)
(*                                                                         *)
(* Units.  Rates are integers in basis points of a rate (1 = 0.0001), so   *)
(* 0.005 is 50 and 0.002 is 20.  Time is in seconds.  A Python string that *)
(* the code concatenates, upper-cases or tests with startswith is a        *)
(* sequence of tokens ("EXIT_LONG" is <<"EXIT", "_", "LONG">>); a dict is  *)
(* a function whose DOMAIN is its key set; Optional[x] is << >> or <<x>>.  *)
(***************************************************************************)
EXTENDS Integers, Sequences, FiniteSets, TLC

(***************************************************************************)
(* Program constants                                                       *)
(***************************************************************************)
\* SimpleDirectionalStrategy.min_spread = 0.005
min_spread == 50
\* SimpleDirectionalStrategy.exit_threshold = 0.002
exit_threshold == 20
\* StrategyAlertBot.alert_cooldown default: config.get("alert_cooldown", 1800)
DefaultAlertCooldown == 1800
\* create_test_alert: "alert_cooldown": 0
TestAlertCooldown == 0

(***************************************************************************)
(* Bounds of the model                                                     *)
(***************************************************************************)
\* number of clock advances explored
MaxTicks == 2
\* saturation of the history counter openEnters
MaxOpen == 3
\* number of gated alert attempts explored
MaxAttempts == 2
\* number of positions opened by execute_strategy
MaxPositions == 3
\* number of analysis passes explored
MaxPasses == 2
\* positions the engine opens in one run
MaxHeld == 2
\* number of analysis passes of a bot that enters, exits and enters again
MaxCycle == 4
\* positions opened through the admission filter: twice the filter's own
\* limit per strategy kind, so that the filter is what stops the run
MaxAdmitted == 6

\* markets of telethon_rates.MARKETS (first word of the button text)
Symbols == {"ETHUSDT", "BTCUSDT"}
\* implied rates of the snapshots (0.05 and 0.07)
ImpliedRates == {500, 700}
\* reference rate minus implied rate of the snapshots: both signs, both
\* thresholds, the values next to them, the open interval between them
SpreadOffsets == {-400, -50, -30, -20, 0, 10, 20, 21, 49, 50, 400}
\* strategy kinds that reach the alert gate (StrategyType values)
Strategies == {"simple_directional", "implied_apr_bands"}
\* the clock: time.time() when the bot starts (far above any cooldown window,
\* as the epoch clock is) and the seconds between two readings that differ:
\* just over half a default window, so that one advance falls inside the
\* window and two fall beyond it
StartTime == 2 * DefaultAlertCooldown
TickSeconds == DefaultAlertCooldown \div 2 + 1
\* the two passes (processes sharing positions_state.json) of SpecOverlap
Passes == {1, 2}
\* snapshots used when two passes overlap: an entry and an exit per symbol
OverlapOffsets == {400, 10}

(***************************************************************************)
(* Python helpers                                                          *)
(***************************************************************************)
None == << >>
Some(x) == <<x>>

Abs(x) == IF x < 0 THEN -x ELSE x
Min2(a, b) == IF a < b THEN a ELSE b
Max2(a, b) == IF a > b THEN a ELSE b

EmptyDict == [k \in {} |-> "NONE"]
\* dict.get(key, default)
DictGet(d, k, default) == IF k \in DOMAIN d THEN d[k] ELSE default
\* d[key] = value
\* (faulty variant: the other keys are dropped)
DictSet_only(d, k, v) == [x \in {k} |-> v]
DictSet(d, k, v) == (k :> v) @@ d

\* str.lower() / str.upper() on one token
LowerTok(t) ==
    CASE t = "LONG" -> "long"
      [] t = "SHORT" -> "short"
      [] t = "NONE" -> "none"
      [] t = "EXIT" -> "exit"
      [] t = "ENTER" -> "enter"
      [] OTHER -> t
UpperTok(t) ==
    CASE t = "long" -> "LONG"
      [] t = "short" -> "SHORT"
      [] t = "none" -> "NONE"
      [] t = "exit" -> "EXIT"
      [] t = "enter" -> "ENTER"
      [] OTHER -> t
Upper(s) == [i \in 1..Len(s) |-> UpperTok(s[i])]
\* str.startswith(prefix)
StartsWith(s, p) == Len(s) >= Len(p) /\ SubSeq(s, 1, Len(p)) = p

(***************************************************************************)
(* MarketCondition (src/strats.py): the fields the strategies read         *)
(***************************************************************************)
\* create_market_condition: `liquidity = 1000000`
DefaultLiquidity == 1000000
MarketCondition(sym, cex, implied) ==
    [symbol |-> sym, cex_funding_rate |-> cex, boros_implied_apr |-> implied,
     liquidity |-> DefaultLiquidity]

Markets ==
    {MarketCondition(s, i + d, i) : s \in Symbols, i \in ImpliedRates, d \in SpreadOffsets}
OverlapMarkets ==
    {MarketCondition(s, 500 + d, 500) : s \in Symbols, d \in OverlapOffsets}

(***************************************************************************)
(* SimpleDirectionalStrategy                                               *)
(***************************************************************************)
\* The position store positions_state.json: absent, holding a dict, or
\* holding bytes that json.load cannot parse.
MissingFile == [state |-> "missing", data |-> EmptyDict]
StoredFile(d) == [state |-> "ok", data |-> d]
CorruptFile == [state |-> "corrupt", data |-> EmptyDict]

\* load_positions: the parsed file, {} on FileNotFoundError
load_positions(file) == IF file.state = "missing" THEN EmptyDict ELSE file.data
\* load_positions catches FileNotFoundError only: json.load's JSONDecodeError
\* on an unparsable file leaves load_positions and evaluate_opportunity
JSONDecodeError(file) == file.state = "corrupt"

\* save_positions: the whole dict replaces the file's content
save_positions(positions) == StoredFile(positions)

\* the opportunity dict returned on entry
EntryOpportunity(action, new_position, spread, abs_spread) ==
    [strategy_type |-> "simple_directional",
     action |-> action,
     position_type |-> LowerTok(new_position),
     current_spread |-> spread,
     abs_spread |-> abs_spread,
     expected_apy |-> abs_spread,
     risk_score |-> 30,
     max_position_size |-> 50000]

\* the opportunity dict returned on exit
ExitOpportunity(current_position, spread, abs_spread) ==
    [strategy_type |-> "simple_directional",
     action |-> <<"EXIT", "_", current_position>>,
     position_type |-> LowerTok(current_position),
     current_spread |-> spread,
     abs_spread |-> abs_spread,
     expected_apy |-> 0,
     risk_score |-> 10,
     max_position_size |-> 0]

\* `if current_position == "NONE":` (entry branch, else exit branch)
\* (faulty variant: the stored position is not consulted before entering)
HasNoPosition_any(current_position) == TRUE
HasNoPosition(current_position) == current_position = "NONE"

\* `if abs_spread >= self.min_spread:`
\* (faulty variants: the bound excluded; the exit threshold used for entry)
EntryCondition_strict(abs_spread) == abs_spread > min_spread
EntryCondition_exit_threshold(abs_spread) == abs_spread >= exit_threshold
EntryCondition(abs_spread) == abs_spread >= min_spread

\* `if spread > 0:` LONG, else SHORT
\* (faulty variant: the side is stored in lower case)
EntrySide_lower(spread) == IF spread > 0 THEN "long" ELSE "short"
EntrySide(spread) == IF spread > 0 THEN "LONG" ELSE "SHORT"

\* `if abs_spread <= self.exit_threshold:`
\* (faulty variant: the bound excluded)
ExitCondition_strict(abs_spread) == abs_spread < exit_threshold
ExitCondition(abs_spread) == abs_spread <= exit_threshold

\* `return None`: no opportunity, the loaded dict is dropped unsaved
\* (faulty variant: the position read is written back all the same)
NoSignal_saves(positions, market, current_position) ==
    [opp |-> None,
     positions |-> DictSet(positions, market.symbol, current_position),
     saved |-> TRUE,
     current_position |-> current_position]
NoSignal(positions, market, current_position) ==
    [opp |-> None, positions |-> positions, saved |-> FALSE,
     current_position |-> current_position]

\* evaluate_opportunity after load_positions: from the loaded dict and the
\* snapshot to the returned opportunity, the dict as left, and whether
\* save_positions was called with it.
evaluate_loaded(positions, market) ==
    LET current_position == DictGet(positions, market.symbol, "NONE")
        spread == market.cex_funding_rate - market.boros_implied_apr
        abs_spread == Abs(spread)
    IN  IF HasNoPosition(current_position)
        THEN IF EntryCondition(abs_spread)
             THEN LET new_position == EntrySide(spread)
                      action == <<"ENTER", "_", new_position>>
                  IN  [opp |-> Some(EntryOpportunity(action, new_position, spread, abs_spread)),
                       positions |-> DictSet(positions, market.symbol, new_position),
                       saved |-> TRUE,
                       current_position |-> current_position]
             ELSE NoSignal(positions, market, current_position)
        ELSE IF ExitCondition(abs_spread)
             THEN [opp |-> Some(ExitOpportunity(current_position, spread, abs_spread)),
                   positions |-> DictSet(positions, market.symbol, "NONE"),
                   saved |-> TRUE,
                   current_position |-> current_position]
             ELSE NoSignal(positions, market, current_position)

\* evaluate_opportunity(market): what the call raised or returned, and the
\* store as the call leaves it
evaluate_opportunity(file, market) ==
    IF JSONDecodeError(file)
    THEN [raised |-> TRUE, opp |-> None, file |-> file]
    ELSE LET r == evaluate_loaded(load_positions(file), market)
         IN  [raised |-> FALSE, opp |-> r.opp,
              file |-> IF r.saved THEN save_positions(r.positions) ELSE file]

(***************************************************************************)
(* ImpliedAPRBandStrategy (band levels in basis points of a rate)          *)
(***************************************************************************)
\* A band level is whatever the configuration holds under the key: a number,
\* or a value that is not one (a JSON string or null), which Python refuses
\* to compare with, or subtract from, a float (TypeError).
Number(n) == [numeric |-> TRUE, value |-> n]
NotANumber == [numeric |-> FALSE, value |-> 0]

\* `self.bands_by_symbol` as ImpliedAPRBandStrategy.__init__ leaves it
bands_by_symbol ==
    [s \in {"ETHUSDT"} |->
        [long_entry |-> Number(600), long_exit |-> Number(685),
         short_entry |-> Number(800), short_exit |-> Number(680),
         dca_step |-> Number(25), max_adds |-> Number(3)]]
\* `self.default_bands`
default_bands ==
    [long_entry |-> Number(600), long_exit |-> Number(680),
     short_entry |-> Number(800), short_exit |-> Number(680),
     dca_step |-> Number(25), max_adds |-> Number(2)]
\* get_bands on the strategy's current bands_by_symbol
get_bands(by_symbol, symbol) == DictGet(by_symbol, symbol, default_bands)
\* `sensitivity = 4.0`
sensitivity == 4
\* `min(market.liquidity * 0.03, 250000)`
BandSize(liquidity) == Min2((liquidity * 3) \div 100, 250000)

\* the opportunity dict of a band signal; it carries no "action" key
\* (faulty variant: an ENTER action naming the side is carried)
BandOpportunity_with_action(side, apr, target, move, risk, bands, market) ==
    [strategy_type |-> <<"implied_apr_bands", "_", side>>,
     action |-> <<"ENTER", "_", UpperTok(side)>>,
     position_type |-> side,
     current_implied_apr |-> apr,
     target_implied_apr |-> target,
     expected_move |-> move,
     expected_apy |-> move * sensitivity,
     risk_score |-> risk,
     max_position_size |-> BandSize(market.liquidity),
     recommended_leverage |-> 10,
     dca_step |-> bands.dca_step,
     max_adds |-> bands.max_adds]
BandOpportunity(side, apr, target, move, risk, bands, market) ==
    [strategy_type |-> <<"implied_apr_bands", "_", side>>,
     position_type |-> side,
     current_implied_apr |-> apr,
     target_implied_apr |-> target,
     expected_move |-> move,
     expected_apy |-> move * sensitivity,
     risk_score |-> risk,
     max_position_size |-> BandSize(market.liquidity),
     recommended_leverage |-> 10,
     dca_step |-> bands.dca_step,
     max_adds |-> bands.max_adds]

\* `max(0.0, bands["long_exit"] - apr)` and `max(0.0, apr - bands["short_exit"])`
\* (faulty variants: the difference without the max)
LongMove_signed(long_exit, apr) == long_exit - apr
LongMove(long_exit, apr) == Max2(0, long_exit - apr)
ShortMove_signed(apr, short_exit) == apr - short_exit
ShortMove(apr, short_exit) == Max2(0, apr - short_exit)

\* `apr <= bands["long_entry"]` and `apr >= bands["short_entry"]`
\* (faulty variants: the strict comparisons)
LongSetup_strict(apr, long_entry) == apr < long_entry
LongSetup(apr, long_entry) == apr <= long_entry
ShortSetup_strict(apr, short_entry) == apr > short_entry
ShortSetup(apr, short_entry) == apr >= short_entry

BandResult(opp) == [raised |-> FALSE, opp |-> opp]
TypeError == [raised |-> TRUE, opp |-> None]

\* ImpliedAPRBandStrategy.evaluate_opportunity(market), reading the bands of
\* the symbol from by_symbol.  The comparisons and differences are evaluated
\* in the order of the code, each raising TypeError on a level that is not
\* a number.
evaluate_bands(by_symbol, market) ==
    LET bands == get_bands(by_symbol, market.symbol)
        apr == market.boros_implied_apr
    IN  IF ~bands.long_entry.numeric THEN TypeError
        ELSE IF LongSetup(apr, bands.long_entry.value)
        THEN IF ~bands.long_exit.numeric THEN TypeError
             ELSE BandResult(Some(BandOpportunity(
                      "long", apr, bands.long_exit,
                      LongMove(bands.long_exit.value, apr), 50, bands, market)))
        ELSE IF ~bands.short_entry.numeric THEN TypeError
        ELSE IF ShortSetup(apr, bands.short_entry.value)
        THEN IF ~bands.short_exit.numeric THEN TypeError
             ELSE BandResult(Some(BandOpportunity(
                      "short", apr, bands.short_exit,
                      ShortMove(apr, bands.short_exit.value), 60, bands, market)))
        ELSE BandResult(None)

(***************************************************************************)
(* StrategyManager.__init__: the band overrides of the configuration       *)
(*                                                                         *)
(* config["implied_apr_bands"] is modelled by its shape: absent (or        *)
(* falsy), a value that is not a dict, or a dict from symbol to entry; an  *)
(* entry is a value that is not a dict, or a dict from field to level.     *)
(***************************************************************************)
NoBandsConfig == [type |-> "absent", items |-> [s \in {} |-> 0]]
NonDictBandsConfig == [type |-> "list", items |-> [s \in {} |-> 0]]
DictBandsConfig(items) == [type |-> "dict", items |-> items]
NonDictEntry == [type |-> "str", fields |-> [f \in {} |-> NotANumber]]
DictEntry(fields) == [type |-> "dict", fields |-> fields]

\* `merged = {**bands_strategy.default_bands, **band}`
\* (faulty variant: the override alone)
Merged_replacing(band) == band
Merged(band) ==
    [f \in (DOMAIN default_bands) \cup (DOMAIN band) |->
        IF f \in DOMAIN band THEN band[f] ELSE default_bands[f]]

\* the loop `for symbol, band in bands_cfg.items()` on the strategy's
\* bands_by_symbol: an entry that is not a dict is passed over, a dict is
\* merged over the defaults and stored under its symbol
ApplyBandOverrides(by_symbol, bands_cfg) ==
    IF bands_cfg.type # "dict" THEN by_symbol
    ELSE LET given == {s \in DOMAIN bands_cfg.items : bands_cfg.items[s].type = "dict"}
         IN  [s \in (DOMAIN by_symbol) \cup given |->
                 IF s \in given THEN Merged(bands_cfg.items[s].fields)
                 ELSE by_symbol[s]]

\* StrategyManager(config): the bands_by_symbol of its band strategy
StrategyManager_init(bands_cfg) == ApplyBandOverrides(bands_by_symbol, bands_cfg)

(***************************************************************************)
(* StrategyManager.evaluate_all_strategies                                 *)
(***************************************************************************)
\* `opp["strategy"] = StrategyType...`, then `opportunities.append(opp)`
Tagged(opp, kind) ==
    IF opp = None THEN << >> ELSE <<DictSet(opp[1], "strategy", kind)>>

\* evaluate_all_strategies(market): the directional strategy, then the band
\* strategy (faulty variant: the band strategy's opportunity first); an
\* exception of either leaves the call, the store as the directional
\* strategy left it
AllOpportunities_reversed(directional_opp, bands_opp) ==
    Tagged(bands_opp, "implied_apr_bands") \o Tagged(directional_opp, "simple_directional")
AllOpportunities(directional_opp, bands_opp) ==
    Tagged(directional_opp, "simple_directional") \o Tagged(bands_opp, "implied_apr_bands")

evaluate_all_strategies(file, by_symbol, market) ==
    LET d == evaluate_opportunity(file, market)
        b == evaluate_bands(by_symbol, market)
    IN  IF d.raised
        THEN [raised |-> "JSONDecodeError", opportunities |-> << >>, file |-> file]
        ELSE IF b.raised
        THEN [raised |-> "TypeError", opportunities |-> << >>, file |-> d.file]
        ELSE [raised |-> "",
              opportunities |-> AllOpportunities(d.opp, b.opp),
              file |-> d.file]

(***************************************************************************)
(* StrategyAlertBot: the alert gate                                        *)
(***************************************************************************)
\* `action_part = (action or "").upper()`; None and "" are both << >>
ActionPart(action) == Upper(action)

\* `alert_key = f"{symbol}_{strategy_type}" + (f"_{action_part}" if action_part else "")`
\* (faulty variant: one key per symbol and strategy, whatever the action)
AlertKey_no_action(symbol, strategy_type, action_part) ==
    <<symbol, "_", strategy_type>>
AlertKey(symbol, strategy_type, action_part) ==
    <<symbol, "_", strategy_type>> \o
        (IF action_part # << >> THEN <<"_">> \o action_part ELSE << >>)

\* `if action_part.startswith("EXIT"): return True`
\* (faulty variant: exits go through the cooldown like any other action)
ExitBypass_none(action_part) == FALSE
ExitBypass(action_part) == StartsWith(action_part, <<"EXIT">>)

\* `return (time.time() - last_alert) > self.alert_cooldown`
\* (faulty variant: half the window is enough)
CooldownElapsed_half(time, last_alert, cooldown) == (time - last_alert) > cooldown \div 2
CooldownElapsed(time, last_alert, cooldown) == (time - last_alert) > cooldown

\* should_send_alert(symbol, strategy_type, action), reading self.last_alerts,
\* self.alert_cooldown and the clock
should_send_alert(alerts, time, cooldown, symbol, strategy_type, action) ==
    LET action_part == ActionPart(action)
        alert_key == AlertKey(symbol, strategy_type, action_part)
    IN  IF ExitBypass(action_part)
        THEN TRUE
        ELSE CooldownElapsed(time, DictGet(alerts, alert_key, 0), cooldown)

\* send_alert: `self.last_alerts[alert_key] = time.time()`, the key built from
\* opportunity.get('action'); the rest of it prints and posts the alert.
\* The clock is read at the value should_send_alert just read.
\* (faulty variant: the map is replaced by one holding this key alone)
send_alert_alone(alerts, time, symbol, strategy_type, action) ==
    DictSet(EmptyDict, AlertKey(symbol, strategy_type, ActionPart(action)), time)
send_alert(alerts, time, symbol, strategy_type, action) ==
    DictSet(alerts, AlertKey(symbol, strategy_type, ActionPart(action)), time)

(***************************************************************************)
(* StrategyManager: admission and execution (src/strats.py)                *)
(*                                                                         *)
(* Units.  Sizes are whole dollars, expected returns are basis points of a *)
(* rate, risk scores are hundredths (0.5 is 50), leverage is tenths (1.0   *)
(* is 10), so an exposure size * leverage is in tenths of a dollar.  An    *)
(* opportunity is a dict: a function whose DOMAIN is the set of its keys.  *)
(***************************************************************************)
\* `opportunity.get("recommended_leverage", 1.0)`: 1.0 in tenths
DefaultLeverage == 10
\* `self.max_total_exposure = 5000000`
max_total_exposure == 5000000
\* `self.max_positions_per_strategy = 3`
max_positions_per_strategy == 3
\* `opportunity.get("expected_apy", 0)`
DefaultExpectedApy == 0
\* `opportunity.get("risk_score", 1.0)`: 1.0 in hundredths
DefaultRiskScore == 100
\* `opportunity.get("risk_score", 0.5)` in execute_strategy
DefaultExecutionRisk == 50

\* `p.size * p.leverage`
Exposure(size, leverage) == size * leverage

\* `sum(p.size * p.leverage for p in self.active_positions)`
RECURSIVE TotalExposure(_)
TotalExposure(positions) ==
    IF positions = << >> THEN 0
    ELSE Exposure(Head(positions).size, Head(positions).leverage)
             + TotalExposure(Tail(positions))

\* `[p for p in self.active_positions if p.strategy == strategy_type]`
CurrentPositions(positions, strategy_type) ==
    SelectSeq(positions, LAMBDA p : p.strategy = strategy_type)

\* `if len(current_positions) >= self.max_positions_per_strategy: return False`
\* (faulty variant: the limit itself is still admitted)
PositionLimitReached_above(positions, strategy_type) ==
    Len(CurrentPositions(positions, strategy_type)) > max_positions_per_strategy
PositionLimitReached(positions, strategy_type) ==
    Len(CurrentPositions(positions, strategy_type)) >= max_positions_per_strategy

\* `if total_exposure + new_exposure > self.max_total_exposure: return False`
\* (faulty variant: a total exactly at the ceiling is refused)
ExposureExceeded_inclusive(total_exposure, new_exposure) ==
    total_exposure + new_exposure >= max_total_exposure * DefaultLeverage
ExposureExceeded(total_exposure, new_exposure) ==
    total_exposure + new_exposure > max_total_exposure * DefaultLeverage

\* `min_expected_returns.get(strategy_type, 0.10)`
\* (faulty variant: no minimum)
MinReturn_none(strategy_type) == 0
MinReturn(strategy_type) ==
    CASE strategy_type = "simple_directional" -> 50
      [] strategy_type = "implied_apr_bands" -> 100
      [] OTHER -> 1000

\* `max_risk_scores.get(strategy_type, 0.6)`
\* (faulty variant: every risk score is tolerated)
MaxRisk_any(strategy_type) == DefaultRiskScore
MaxRisk(strategy_type) ==
    CASE strategy_type = "simple_directional" -> 50
      [] strategy_type = "implied_apr_bands" -> 70
      [] OTHER -> 60

\* the outcomes of a call: a returned boolean, or KeyError
Returned(b) == [raised |-> FALSE, value |-> b]
KeyError == [raised |-> TRUE, value |-> FALSE]

\* should_execute_strategy(opportunity), reading self.active_positions.
\* `opportunity["strategy"]` and `opportunity["max_position_size"]` are
\* subscripts (KeyError when the key is absent), the other fields are read
\* with .get and a default; the position limit is tested before the size is
\* read.
should_execute_strategy(positions, opportunity) ==
    IF "strategy" \notin DOMAIN opportunity THEN KeyError
    ELSE IF PositionLimitReached(positions, opportunity["strategy"]) THEN Returned(FALSE)
    ELSE IF "max_position_size" \notin DOMAIN opportunity THEN KeyError
    ELSE IF ExposureExceeded(
                TotalExposure(positions),
                Exposure(opportunity["max_position_size"],
                         DictGet(opportunity, "recommended_leverage", DefaultLeverage)))
         THEN Returned(FALSE)
    ELSE IF DictGet(opportunity, "expected_apy", DefaultExpectedApy)
                < MinReturn(opportunity["strategy"])
         THEN Returned(FALSE)
    ELSE IF DictGet(opportunity, "risk_score", DefaultRiskScore)
                > MaxRisk(opportunity["strategy"])
         THEN Returned(FALSE)
    ELSE Returned(TRUE)

\* `position_size = base_position_size * risk_adjustment * 0.5` with
\* risk_adjustment = 1.0 - risk_score; exact for the sizes explored here
PositionSize(base_position_size, risk_score) ==
    (base_position_size * (100 - risk_score)) \div 200

\* `health_factor=1.5`
InitialHealth == 15

\* `collateral_used=position_size / opportunity.get("recommended_leverage", 1.0)`
\* in whole dollars, the leverage being in tenths
Collateral(position_size, leverage) == (position_size * 10) \div leverage

\* the Position execute_strategy builds (the fields the manager reads later);
\* time is what datetime.now() returns
Position(opportunity, market, time) ==
    LET leverage == DictGet(opportunity, "recommended_leverage", DefaultLeverage)
        position_size ==
            PositionSize(opportunity["max_position_size"],
                         DictGet(opportunity, "risk_score", DefaultExecutionRisk))
    IN  [strategy |-> opportunity["strategy"],
         symbol |-> market.symbol,
         position_type |-> DictGet(opportunity, "position_type", "long"),
         size |-> position_size,
         entry_implied_apr |-> market.boros_implied_apr,
         entry_timestamp |-> time,
         collateral_used |-> Collateral(position_size, leverage),
         leverage |-> leverage,
         health_factor |-> InitialHealth,
         expected_apy |-> DictGet(opportunity, "expected_apy", DefaultExpectedApy)]

\* execute_strategy: `self.active_positions.append(position)`
\* (faulty variant: the new position takes the place of the list)
execute_strategy_alone(positions, opportunity, market, time) ==
    <<Position(opportunity, market, time)>>
execute_strategy(positions, opportunity, market, time) ==
    Append(positions, Position(opportunity, market, time))

\* `timedelta(days=7)` in seconds, and the health factor 1.1
StaleSeconds == 604800
LowHealth == 11

\* what monitor_positions prints about one position: the health factor is
\* looked at first, the age only when the health factor is not low
Flag(position, current_time) ==
    IF position.health_factor < LowHealth THEN "LOW HEALTH FACTOR"
    ELSE IF current_time - position.entry_timestamp > StaleSeconds THEN "OLD POSITION"
    ELSE ""

\* monitor_positions: it walks a copy of the list (`self.active_positions[:]`)
\* and prints; the list it leaves and the lines it printed
\* (faulty variant: a flagged position is removed from the list)
monitor_positions_closing(positions, current_time) ==
    [positions |-> SelectSeq(positions, LAMBDA q : Flag(q, current_time) = ""),
     flags |-> [i \in DOMAIN positions |-> Flag(positions[i], current_time)]]
monitor_positions(positions, current_time) ==
    [positions |-> positions,
     flags |-> [i \in DOMAIN positions |-> Flag(positions[i], current_time)]]

\* `sum(p.size for p in self.active_positions)`
RECURSIVE TotalSize(_)
TotalSize(positions) ==
    IF positions = << >> THEN 0
    ELSE positions[1].size + TotalSize(Tail(positions))

\* `strategies_used`: per strategy kind in use, the sum of the sizes
StrategiesUsed(positions) ==
    [k \in {positions[i].strategy : i \in DOMAIN positions} |->
        TotalSize(SelectSeq(positions, LAMBDA q : q.strategy = k))]

\* `sum(p.collateral_used for p in self.active_positions)`
RECURSIVE TotalCollateral(_)
TotalCollateral(positions) ==
    IF positions = << >> THEN 0
    ELSE positions[1].collateral_used + TotalCollateral(Tail(positions))

\* `total_exposure / self.max_total_exposure`, in millionths: the exposure
\* is in tenths of a dollar and the ceiling 5,000,000 dollars; exact for the
\* sizes explored here
Utilization(total_exposure) == total_exposure \div (max_total_exposure \div 100000)

\* get_portfolio_summary: the short dict without positions; otherwise the
\* weighted return divides by the sum of the sizes (ZeroDivisionError when
\* it is 0).  Of the dict, the entries that are sums and the utilization
\* are carried; the weighted return itself is not.
get_portfolio_summary(positions) ==
    IF positions = << >>
    THEN [raised |-> FALSE,
          total_positions |-> 0, total_exposure |-> 0, total_collateral |-> 0,
          strategies_breakdown |-> [k \in {} |-> 0], utilization |-> 0]
    ELSE IF TotalSize(positions) = 0
    THEN [raised |-> TRUE,
          total_positions |-> 0, total_exposure |-> 0, total_collateral |-> 0,
          strategies_breakdown |-> [k \in {} |-> 0], utilization |-> 0]
    ELSE [raised |-> FALSE,
          total_positions |-> Len(positions),
          total_exposure |-> TotalExposure(positions),
          total_collateral |-> TotalCollateral(positions),
          strategies_breakdown |-> StrategiesUsed(positions),
          utilization |-> Utilization(TotalExposure(positions))]

(***************************************************************************)
(* StrategyAlertBot.analyze_opportunities: one analysis pass               *)
(*                                                                         *)
(* Units.  rates.json gives rates in percent; a record field holds the     *)
(* percentage in hundredths of a percent, so that `/ 100` to a rate, held  *)
(* in basis points of a rate, keeps the number.                            *)
(***************************************************************************)
\* the configuration of main() and the configuration of create_test_alert()
MainConfig ==
    [min_expected_move |-> 100, min_directional_spread |-> 50,
     alert_cooldown |-> DefaultAlertCooldown]
TestConfig ==
    [min_expected_move |-> 50, min_directional_spread |-> 30,
     alert_cooldown |-> TestAlertCooldown]
\* the configuration a bot with the given cooldown was built with
ConfigOf(cooldown) == IF cooldown = TestAlertCooldown THEN TestConfig ELSE MainConfig

\* one entry of rates.json["markets"], as telethon_rates writes it
RatesRecord(symbol, implied, underlying) ==
    [market |-> symbol, implied |-> implied, underlying |-> underlying,
     spread |-> underlying - implied]
\* a record lacking one field
Without(record, field) == [x \in (DOMAIN record) \ {field} |-> record[x]]

\* create_market_condition(market_data, symbol): the three subscripts raise
\* KeyError on a record that lacks the field
create_market_condition(market_data, symbol) ==
    IF {"implied", "underlying", "spread"} \subseteq DOMAIN market_data
    THEN [raised |-> FALSE,
          market |-> MarketCondition(symbol, market_data["underlying"],
                                     market_data["implied"])]
    ELSE [raised |-> TRUE, market |-> MarketCondition(symbol, 0, 0)]

\* the keys of markets_by_symbol in insertion order
RECURSIVE SymbolOrder(_)
SymbolOrder(records) ==
    IF records = << >> THEN << >>
    ELSE LET front == SymbolOrder(SubSeq(records, 1, Len(records) - 1))
             symbol == records[Len(records)]["market"]
         IN  IF \E i \in DOMAIN front : front[i] = symbol
             THEN front
             ELSE Append(front, symbol)

\* `markets_by_symbol[symbol]`
MarketList(records, symbol) == SelectSeq(records, LAMBDA r : r["market"] = symbol)

\* `max(market_list, key=lambda x: x['implied'])`: the first record among
\* those of highest implied rate
\* (faulty variant: the first record of the symbol)
BestMarket_first(market_list) == market_list[1]
BestMarket(market_list) ==
    LET i == CHOOSE i \in DOMAIN market_list :
                 /\ \A j \in DOMAIN market_list :
                        market_list[j]["implied"] <= market_list[i]["implied"]
                 /\ \A j \in 1..(i - 1) :
                        market_list[j]["implied"] < market_list[i]["implied"]
    IN  market_list[i]

\* the tests of analyze_opportunities that lead to the gate: an EXIT action
\* always, otherwise the spread (directional) or the expected return (bands)
\* at or above the configured minimum
WantsAlert(opp, config) ==
    LET strategy_type == opp["strategy"]
        action == Upper(DictGet(opp, "action", << >>))
    IN  IF strategy_type = "simple_directional"
        THEN \/ StartsWith(action, <<"EXIT">>)
             \/ DictGet(opp, "abs_spread", 0) >= config.min_directional_spread
        ELSE IF strategy_type = "implied_apr_bands"
        THEN \/ StartsWith(action, <<"EXIT">>)
             \/ DictGet(opp, "expected_apy", 0) >= config.min_expected_move
        ELSE FALSE

\* what the webhook does with a post
Webhooks == {"no_webhook", "204", "status", "exception"}

\* send_discord_alert: returns at once without a webhook URL; an exception
\* of requests.post is caught and printed, a status other than 204 printed
\* (faulty variant: the exception of requests.post is not caught)
send_discord_alert_uncaught(webhook) ==
    [raised |-> webhook = "exception", delivered |-> webhook = "204"]
send_discord_alert(webhook) ==
    [raised |-> FALSE, delivered |-> webhook = "204"]

\* the body of `for opp in opportunities:` for one opportunity.  st is the
\* pass so far: the store, the cooldown map, the symbols evaluated and the
\* snapshots they were evaluated on, the
\* alerts sent, and the exception that ended the pass (if any).
\* (faulty variant: the last-alert time is recorded after a delivery that
\* succeeded, and not otherwise)
ProcessOpportunity_on_delivery(st, symbol, opp, env) ==
    LET strategy_type == opp["strategy"]
        action == Upper(DictGet(opp, "action", << >>))
    IN  IF /\ WantsAlert(opp, env.config)
           /\ should_send_alert(st.alerts, env.time, env.cooldown,
                                symbol, strategy_type, action)
        THEN LET posted == send_discord_alert(env.webhook)
             IN  [st EXCEPT
                    !.alerts = IF posted.delivered
                               THEN send_alert(st.alerts, env.time, symbol,
                                               strategy_type,
                                               DictGet(opp, "action", << >>))
                               ELSE st.alerts,
                    !.sent = Append(@, [symbol |-> symbol,
                                        strategy_type |-> strategy_type,
                                        action |-> action,
                                        opportunity |-> opp,
                                        delivered |-> posted.delivered]),
                    !.raised = IF posted.raised THEN "Exception" ELSE ""]
        ELSE st
ProcessOpportunity(st, symbol, opp, env) ==
    LET strategy_type == opp["strategy"]
        action == Upper(DictGet(opp, "action", << >>))
    IN  IF /\ WantsAlert(opp, env.config)
           /\ should_send_alert(st.alerts, env.time, env.cooldown,
                                symbol, strategy_type, action)
        THEN LET posted == send_discord_alert(env.webhook)
             IN  [st EXCEPT
                    !.alerts = send_alert(st.alerts, env.time, symbol, strategy_type,
                                          DictGet(opp, "action", << >>)),
                    !.sent = Append(@, [symbol |-> symbol,
                                        strategy_type |-> strategy_type,
                                        action |-> action,
                                        opportunity |-> opp,
                                        delivered |-> posted.delivered]),
                    !.raised = IF posted.raised THEN "Exception" ELSE ""]
        ELSE st

RECURSIVE ProcessOpportunities(_, _, _, _)
ProcessOpportunities(st, symbol, opportunities, env) ==
    IF opportunities = << >> \/ st.raised # "" THEN st
    ELSE ProcessOpportunities(ProcessOpportunity(st, symbol, Head(opportunities), env),
                              symbol, Tail(opportunities), env)

\* the body of `for symbol, market_list in markets_by_symbol.items():`
AnalyzeSymbol(st, symbol, market_list, env) ==
    IF \E i \in DOMAIN market_list : "implied" \notin DOMAIN market_list[i]
    THEN [st EXCEPT !.raised = "KeyError"]
    ELSE LET created == create_market_condition(BestMarket(market_list), symbol)
         IN  IF created.raised THEN [st EXCEPT !.raised = "KeyError"]
             ELSE LET found == evaluate_all_strategies(st.file, env.bands, created.market)
                  IN  IF found.raised # ""
                      THEN [st EXCEPT !.file = found.file, !.raised = found.raised]
                      ELSE ProcessOpportunities(
                               [st EXCEPT !.file = found.file,
                                          !.evaluated = Append(@, symbol),
                                          !.snapshots = Append(@, created.market)],
                               symbol, found.opportunities, env)

RECURSIVE AnalyzeSymbols(_, _, _, _)
AnalyzeSymbols(st, symbols, records, env) ==
    IF symbols = << >> \/ st.raised # "" THEN st
    ELSE AnalyzeSymbols(AnalyzeSymbol(st, Head(symbols),
                                      MarketList(records, Head(symbols)), env),
                        Tail(symbols), records, env)

\* analyze_opportunities on the records of rates.json (the data is fresh:
\* no refresh): grouping by `market_data['market']`, then the symbols in
\* turn.  An exception leaves the pass at the point it is raised.
analyze_opportunities(file, alerts, records, env) ==
    LET st == [file |-> file, alerts |-> alerts, evaluated |-> << >>,
               snapshots |-> << >>,
               sent |-> << >>, raised |-> ""]
    IN  IF records = << >> THEN st
        ELSE IF \E i \in DOMAIN records : "market" \notin DOMAIN records[i]
        THEN [st EXCEPT !.raised = "KeyError"]
        ELSE AnalyzeSymbols(st, SymbolOrder(records), records, env)

(***************************************************************************)
(* State                                                                   *)
(***************************************************************************)
VARIABLES
    positions_file,  \* positions_state.json
    pc,              \* per pass: "idle", or "loaded" between load and save
    loaded,          \* per pass: the dict load_positions returned
    arg,             \* per pass: the snapshot being evaluated
    last,            \* per pass: what its last finished evaluation did
    lastSignal,      \* per symbol: action of the last opportunity emitted
    openEnters,      \* per symbol: ENTER_* emitted since the last EXIT_*
    last_alerts,     \* StrategyAlertBot.last_alerts: alert key -> time
    alert_cooldown,  \* StrategyAlertBot.alert_cooldown (configuration)
    now,             \* the clock time.time() reads
    ticks,           \* clock advances so far
    attempts,        \* gated alert attempts so far
    lastAlert,       \* the last gated alert attempt, the seconds since the
                     \* last alert under its key (if any), the gate's answer
    emitted,         \* history: per (symbol, strategy, action part), the
                     \* times at which send_alert was entered, oldest first
    active_positions, \* StrategyManager.active_positions
    lastCheck,       \* the last call of should_execute_strategy: its
                     \* argument and its outcome
    lastPass,        \* the last analysis pass: its records, the webhook's
                     \* behaviour, the symbols evaluated, the alerts sent,
                     \* the exception that ended it; and the passes so far
    strategy_bands,  \* ImpliedAPRBandStrategy.bands_by_symbol of the manager
    lastCall,        \* the last call of a manager or band strategy method:
                     \* its name, its arguments, what it raised or returned
    firstBand        \* the first band evaluation since the manager was
                     \* built: its snapshot and its outcome

dirVars == <<positions_file, pc, loaded, arg, last, lastSignal, openEnters>>
gateVars == <<last_alerts, alert_cooldown, now, ticks, attempts, lastAlert, emitted>>
mgrVars == <<active_positions, lastCheck>>
passVars == <<lastPass>>
engVars == <<strategy_bands, lastCall, firstBand>>
vars == <<positions_file, pc, loaded, arg, last, lastSignal, openEnters,
          last_alerts, alert_cooldown, now, ticks, attempts, lastAlert, emitted,
          active_positions, lastCheck, lastPass,
          strategy_bands, lastCall, firstBand>>

NoAttempt ==
    [symbol |-> "", strategy_type |-> "", action |-> << >>, allowed |-> FALSE,
     since |-> None, tried |-> FALSE]

NoPass ==
    [number |-> 0, records |-> << >>, webhook |-> "", evaluated |-> << >>,
     snapshots |-> << >>,
     sent |-> << >>, raised |-> "", failed_before |-> FALSE]

NoCall ==
    [name |-> "", config |-> NoBandsConfig, market |-> MarketCondition("", 0, 0),
     raised |-> "", opportunities |-> << >>, flags |-> << >>,
     positions |-> << >>, bands |-> bands_by_symbol, store |-> MissingFile]

NoCheck ==
    [opportunity |-> [strategy |-> ""], raised |-> FALSE, value |-> FALSE,
     checked |-> FALSE]

NoEvaluation ==
    [market |-> MarketCondition("", 0, 0), current_position |-> "NONE",
     opp |-> None, saved |-> FALSE, evaluated |-> FALSE, raised |-> FALSE,
     read |-> ""]

\* what an evaluation of symbol s met in the store: a file that cannot be
\* parsed, no file, a file without a record for s, or a record for s
StoreRead(file, s) ==
    IF file.state = "corrupt" THEN "corrupt"
    ELSE IF file.state = "missing" THEN "missing"
    ELSE IF s \in DOMAIN file.data THEN "record"
    ELSE "no_record"

Init ==
    /\ positions_file = MissingFile
    /\ pc = [p \in Passes |-> "idle"]
    /\ loaded = [p \in Passes |-> EmptyDict]
    /\ arg = [p \in Passes |-> MarketCondition("", 0, 0)]
    /\ last = [p \in Passes |-> NoEvaluation]
    /\ lastSignal = [s \in Symbols |-> None]
    /\ openEnters = [s \in Symbols |-> 0]
    /\ last_alerts = EmptyDict
    /\ alert_cooldown \in {DefaultAlertCooldown, TestAlertCooldown}
    /\ now = StartTime
    /\ ticks = 0
    /\ attempts = 0
    /\ lastAlert = NoAttempt
    /\ emitted = [k \in {} |-> << >>]
    /\ active_positions = << >>
    /\ lastCheck = NoCheck
    /\ lastPass = NoPass
    /\ strategy_bands = StrategyManager_init(NoBandsConfig)
    /\ lastCall = NoCall
    /\ firstBand = NoCall

\* the position the store holds for a symbol, as evaluate_opportunity reads it
StoredPosition(s) == DictGet(load_positions(positions_file), s, "NONE")

IsEnter(action) == StartsWith(action, <<"ENTER">>)
IsExit(action) == StartsWith(action, <<"EXIT">>)

\* the history of emitted signals after an evaluation returned r for market m
SignalAfter(r, m) ==
    IF r.opp = None THEN lastSignal
    ELSE [lastSignal EXCEPT ![m.symbol] = Some(r.opp[1].action)]
OpenAfter(r, m) ==
    IF r.opp = None THEN openEnters
    ELSE IF IsExit(r.opp[1].action) THEN [openEnters EXCEPT ![m.symbol] = 0]
    ELSE [openEnters EXCEPT ![m.symbol] = Min2(@ + 1, MaxOpen)]

\* the effects of an evaluation that returned r, by pass p
Finished(p, r, m) ==
    /\ positions_file' = IF r.saved THEN save_positions(r.positions) ELSE positions_file
    /\ last' = [last EXCEPT ![p] =
                   [market |-> m, current_position |-> r.current_position,
                    opp |-> r.opp, saved |-> r.saved, evaluated |-> TRUE,
                    raised |-> FALSE, read |-> StoreRead(positions_file, m.symbol)]]
    /\ lastSignal' = SignalAfter(r, m)
    /\ openEnters' = OpenAfter(r, m)

\* the effects of an evaluation that load_positions left by JSONDecodeError
Raised(p, m) ==
    /\ last' = [last EXCEPT ![p] =
                   [market |-> m, current_position |-> "NONE", opp |-> None,
                    saved |-> FALSE, evaluated |-> FALSE, raised |-> TRUE,
                    read |-> StoreRead(positions_file, m.symbol)]]
    /\ UNCHANGED <<positions_file, lastSignal, openEnters>>

\* One call of evaluate_opportunity(market), nothing else touching the store
\* meanwhile: load_positions, the decision, save_positions.
Evaluate(m) ==
    /\ IF JSONDecodeError(positions_file)
       THEN Raised(1, m)
       ELSE Finished(1, evaluate_loaded(load_positions(positions_file), m), m)
    /\ UNCHANGED <<pc, loaded, arg>>
    /\ UNCHANGED <<gateVars, mgrVars, passVars, engVars>>

NextDirectional == \E m \in Markets : Evaluate(m)

SpecDirectional == Init /\ [][NextDirectional]_vars

(***************************************************************************)
(* The store under outside influence: positions_state.json is a plain file *)
(* in the working directory, written in place by save_positions            *)
(* (`open(..., 'w')` then json.dump).  A write cut short, or an edit from  *)
(* outside, leaves bytes json.load cannot parse; an operator resetting the *)
(* bot leaves `{}`.                                                        *)
(***************************************************************************)
Corrupt ==
    /\ positions_file.state = "ok"
    /\ positions_file' = CorruptFile
    /\ UNCHANGED <<pc, loaded, arg, last, lastSignal, openEnters>>
    /\ UNCHANGED <<gateVars, mgrVars, passVars, engVars>>

Clear ==
    /\ positions_file.state = "ok"
    /\ positions_file.data # EmptyDict
    /\ positions_file' = StoredFile(EmptyDict)
    /\ lastSignal' = [s \in Symbols |-> None]
    /\ openEnters' = [s \in Symbols |-> 0]
    /\ UNCHANGED <<pc, loaded, arg, last>>
    /\ UNCHANGED <<gateVars, mgrVars, passVars, engVars>>

NextStore ==
    \/ \E m \in Markets : Evaluate(m)
    \/ Corrupt
    \/ Clear

SpecStore == Init /\ [][NextStore]_vars

(***************************************************************************)
(* Two passes sharing the store.  Each pass is its own process running     *)
(* evaluate_opportunity (the scheduled bot and a manual                    *)
(* `strategy_bot.py test` both open positions_state.json); nothing in      *)
(* load_positions, save_positions or evaluate_opportunity locks the file,  *)
(* so another pass's read or write can fall between one pass's read and    *)
(* its write.                                                              *)
(***************************************************************************)
\* `positions = self.load_positions()`
Load(p, m) ==
    /\ pc[p] = "idle"
    /\ ~JSONDecodeError(positions_file)
    /\ pc' = [pc EXCEPT ![p] = "loaded"]
    /\ loaded' = [loaded EXCEPT ![p] = load_positions(positions_file)]
    /\ arg' = [arg EXCEPT ![p] = m]
    /\ last' = [last EXCEPT ![p] = NoEvaluation]
    /\ UNCHANGED <<positions_file, lastSignal, openEnters>>
    /\ UNCHANGED <<gateVars, mgrVars, passVars, engVars>>

\* the rest of evaluate_opportunity: the decision on the dict read earlier,
\* save_positions, the return
Finish(p) ==
    /\ pc[p] = "loaded"
    /\ Finished(p, evaluate_loaded(loaded[p], arg[p]), arg[p])
    /\ pc' = [pc EXCEPT ![p] = "idle"]
    /\ loaded' = [loaded EXCEPT ![p] = EmptyDict]
    /\ arg' = [arg EXCEPT ![p] = MarketCondition("", 0, 0)]
    /\ UNCHANGED <<gateVars, mgrVars, passVars, engVars>>

NextOverlap ==
    \/ \E p \in Passes, m \in OverlapMarkets : Load(p, m)
    \/ \E p \in Passes : Finish(p)

SpecOverlap == Init /\ [][NextOverlap]_vars

(***************************************************************************)
(* The alert gate driven as analyze_opportunities drives it:               *)
(*     if self.should_send_alert(symbol, strategy_type, action):           *)
(*         self.send_alert(symbol, strategy_type, opp, market_condition)   *)
(* with the action of the opportunity (none for a band opportunity).       *)
(***************************************************************************)
ENTER_LONG == <<"ENTER", "_", "LONG">>
ENTER_SHORT == <<"ENTER", "_", "SHORT">>
EXIT_LONG == <<"EXIT", "_", "LONG">>
EXIT_SHORT == <<"EXIT", "_", "SHORT">>
\* actions of the opportunities that are gated
GateActions == {<< >>, ENTER_LONG, EXIT_LONG}
\* actions should_send_alert is asked about in the claims
QueryActions ==
    {<< >>, ENTER_LONG, ENTER_SHORT, EXIT_LONG, EXIT_SHORT, <<"exit", "_", "long">>, <<"EXIT">>}

\* the history of sent alerts after one more under the triple k at time t
EmittedAfter(h, k, t) ==
    [x \in (DOMAIN h) \cup {k} |->
        IF x = k THEN (IF k \in DOMAIN h THEN Append(h[k], t) ELSE <<t>>) ELSE h[x]]

TryAlert(symbol, strategy_type, action) ==
    LET allowed == should_send_alert(last_alerts, now, alert_cooldown,
                                     symbol, strategy_type, action)
        key == AlertKey(symbol, strategy_type, ActionPart(action))
    IN  /\ attempts < MaxAttempts
        /\ attempts' = attempts + 1
        /\ lastAlert' = [symbol |-> symbol, strategy_type |-> strategy_type,
                         action |-> action, allowed |-> allowed,
                         since |-> IF key \in DOMAIN last_alerts
                                   THEN Some(now - last_alerts[key]) ELSE None,
                         tried |-> TRUE]
        /\ last_alerts' = IF allowed
                          THEN send_alert(last_alerts, now, symbol, strategy_type, action)
                          ELSE last_alerts
        /\ emitted' = IF allowed
                      THEN EmittedAfter(emitted, <<symbol, strategy_type, ActionPart(action)>>, now)
                      ELSE emitted
        /\ UNCHANGED <<alert_cooldown, now, ticks>>
        /\ UNCHANGED <<dirVars, mgrVars, passVars, engVars>>

\* time passes between two readings of the clock
Tick ==
    /\ ticks < MaxTicks
    /\ ticks' = ticks + 1
    /\ now' = now + TickSeconds
    /\ UNCHANGED <<last_alerts, alert_cooldown, attempts, lastAlert, emitted>>
    /\ UNCHANGED <<dirVars, mgrVars, passVars, engVars>>

NextGate ==
    \/ \E s \in Symbols, t \in Strategies, a \in GateActions : TryAlert(s, t, a)
    \/ Tick

SpecGate == Init /\ [][NextGate]_vars

(***************************************************************************)
(* The Strategy Manager driven as test_strategies drives it: opportunities *)
(* are put to should_execute_strategy, and execute_strategy records a      *)
(* Position for an opportunity and the market it was found on.             *)
(***************************************************************************)
\* an opportunity dict with the given strategy kind and the optional fields
Opportunity(kind, size, leverage, apy, risk) ==
    ("strategy" :> kind)
        @@ (IF size # None THEN "max_position_size" :> size[1] ELSE EmptyDict)
        @@ (IF leverage # None THEN "recommended_leverage" :> leverage[1] ELSE EmptyDict)
        @@ (IF apy # None THEN "expected_apy" :> apy[1] ELSE EmptyDict)
        @@ (IF risk # None THEN "risk_score" :> risk[1] ELSE EmptyDict)

\* StrategyType values put to the filter: the two registered kinds and one
\* that has no entry in its threshold tables
CheckKinds == Strategies \cup {"fixed_floating_swap"}
\* sizes: absent, the directional cap, and the sizes at and just above the
\* ceiling with no position open and with one directional position open
CheckSizes == {None, Some(50000), Some(4982500), Some(4982501), Some(5000000)}
\* leverage: absent (1.0), and 1.2
CheckLeverages == {None, Some(12)}
\* expected returns: absent, and around both minimum returns
CheckReturns == {None, Some(49), Some(50), Some(99), Some(100)}
\* risk scores: absent, and around both maximum risks
CheckRisks == {None, Some(50), Some(51), Some(70), Some(71)}
CheckOpportunities ==
    {Opportunity(k, z, l, a, r) :
        k \in CheckKinds, z \in CheckSizes, l \in CheckLeverages,
        a \in CheckReturns, r \in CheckRisks}

\* opportunities that are executed: a directional entry (risk 0.3, size
\* 50,000) and a long band opportunity (risk 0.5, size 30,000)
ExecutedOpportunities ==
    {Opportunity("simple_directional", Some(50000), None, Some(400), Some(30)),
     Opportunity("implied_apr_bands", Some(30000), Some(10), Some(740), Some(50))}
ExecutedMarkets == {MarketCondition(s, 900, 500) : s \in Symbols}

\* a call of should_execute_strategy(opportunity); the call changes nothing
\* of the manager, so one call is explored from each list of positions
Check(opportunity) ==
    LET r == should_execute_strategy(active_positions, opportunity)
    IN  /\ ~lastCheck.checked
        /\ lastCheck' = [opportunity |-> opportunity, raised |-> r.raised,
                         value |-> r.value, checked |-> TRUE]
        /\ UNCHANGED active_positions
        /\ UNCHANGED <<dirVars, gateVars, passVars, engVars>>

\* a call of execute_strategy(opportunity, market)
Execute(opportunity, market) ==
    /\ Len(active_positions) < MaxPositions
    /\ active_positions' = execute_strategy(active_positions, opportunity, market, now)
    /\ lastCheck' = NoCheck
    /\ UNCHANGED <<dirVars, gateVars, passVars, engVars>>

NextManager ==
    \/ \E o \in CheckOpportunities : Check(o)
    \/ \E o \in ExecutedOpportunities, m \in ExecutedMarkets : Execute(o, m)

SpecManager == Init /\ [][NextManager]_vars

(***************************************************************************)
(* The bot's loop (run): analyze_opportunities on the records at hand,     *)
(* then sleep.  An exception that leaves analyze_opportunities is caught   *)
(* and printed by run, which sleeps and goes on to the next pass.          *)
(***************************************************************************)
\* records: an entry-sized spread under a low implied rate (directional
\* entry and long band), a spread near zero between the bands (directional
\* exit or nothing), and records lacking a field
EntryRecord(s) == RatesRecord(s, 500, 900)
FlatRecord(s) == RatesRecord(s, 700, 710)
\* the batches of rates.json: one symbol; both symbols in the order of
\* telethon_rates.MARKETS; a record lacking a field before or after a
\* complete one; two records of one symbol
PassBatches ==
    {<<EntryRecord("ETHUSDT")>>,
     <<FlatRecord("ETHUSDT")>>,
     <<EntryRecord("BTCUSDT"), EntryRecord("ETHUSDT")>>,
     <<FlatRecord("BTCUSDT"), FlatRecord("ETHUSDT")>>,
     <<Without(EntryRecord("BTCUSDT"), "implied"), EntryRecord("ETHUSDT")>>,
     <<EntryRecord("BTCUSDT"), Without(EntryRecord("ETHUSDT"), "spread")>>,
     <<EntryRecord("ETHUSDT"), FlatRecord("ETHUSDT")>>}

\* a post of the pass failed: requests.post raised or answered another
\* status than 204
DeliveryFailed(pass) ==
    pass.webhook \in {"status", "exception"} /\ pass.sent # << >>

\* one pass of the loop on the records at hand
RunPass(records, webhook) ==
    LET env == [webhook |-> webhook, time |-> now, cooldown |-> alert_cooldown,
                config |-> ConfigOf(alert_cooldown), bands |-> strategy_bands]
        r == analyze_opportunities(positions_file, last_alerts, records, env)
    IN  /\ positions_file' = r.file
        /\ last_alerts' = r.alerts
        /\ lastPass' = [number |-> lastPass.number + 1,
                        records |-> records,
                        webhook |-> webhook,
                        evaluated |-> r.evaluated,
                        snapshots |-> r.snapshots,
                        sent |-> r.sent,
                        raised |-> r.raised,
                        failed_before |-> lastPass.failed_before \/ DeliveryFailed(lastPass)]
        /\ UNCHANGED <<pc, loaded, arg, last, lastSignal, openEnters>>
        /\ UNCHANGED <<alert_cooldown, now, ticks, attempts, lastAlert, emitted>>
        /\ UNCHANGED <<mgrVars, engVars>>

AnalyzePass(records, webhook) ==
    /\ lastPass.number < MaxPasses
    /\ RunPass(records, webhook)

NextPass ==
    \/ \E b \in PassBatches, w \in Webhooks : AnalyzePass(b, w)
    \/ Tick

SpecPass == Init /\ [][NextPass]_vars

(***************************************************************************)
(* The bot's loop on batches that hold several records of a symbol (one    *)
(* per maturity), the webhook answering 204.                               *)
(***************************************************************************)
\* two records of ETHUSDT, the one of higher implied rate last and first;
\* the same next to a record of BTCUSDT; one record alone
DuplicateBatches ==
    {<<EntryRecord("ETHUSDT"), FlatRecord("ETHUSDT")>>,
     <<FlatRecord("ETHUSDT"), EntryRecord("ETHUSDT")>>,
     <<EntryRecord("ETHUSDT"), EntryRecord("BTCUSDT"), FlatRecord("ETHUSDT")>>,
     <<EntryRecord("ETHUSDT")>>}

NextBatch ==
    \/ \E b \in DuplicateBatches : AnalyzePass(b, "204")
    \/ Tick

SpecBatch == Init /\ [][NextBatch]_vars

(***************************************************************************)
(* The bot's loop over several cycles of one symbol: the rates fall and    *)
(* rise, so that the symbol is entered, left and entered again, the band   *)
(* strategy sees both sides, and the webhook answers 204 or another        *)
(* status.                                                                 *)
(***************************************************************************)
\* a record with the implied rate above the short band and the spread near
\* zero (directional exit or nothing, short band)
HighRecord(s) == RatesRecord(s, 900, 905)
CycleBatches == {<<EntryRecord("ETHUSDT")>>, <<HighRecord("ETHUSDT")>>}
CycleWebhooks == {"204", "status"}

AnalyzeCycle(records, webhook) ==
    /\ lastPass.number < MaxCycle
    /\ RunPass(records, webhook)

NextCycle ==
    \/ \E b \in CycleBatches, w \in CycleWebhooks : AnalyzeCycle(b, w)
    \/ Tick

SpecCycle == Init /\ [][NextCycle]_vars

(***************************************************************************)
(* The band strategy of a manager built from a configuration: the manager  *)
(* is built (again) with some `implied_apr_bands` value, snapshots are put *)
(* to the band strategy, and the directional strategy goes on writing the  *)
(* store in between.                                                       *)
(***************************************************************************)
\* one override entry with the given levels
Override(fields) == DictEntry(fields)
\* `implied_apr_bands` values: none; not a dict; an entry that is not a dict;
\* part of the levels of a symbol with and without built-in bands; exits on
\* the far side of the entries; levels that are not numbers
BandConfigs ==
    {NoBandsConfig,
     NonDictBandsConfig,
     DictBandsConfig([s \in {"ETHUSDT"} |-> NonDictEntry]),
     DictBandsConfig([s \in {"ETHUSDT"} |-> Override([f \in {"long_entry"} |-> Number(550)])]),
     DictBandsConfig([s \in {"BTCUSDT"} |->
         Override([short_entry |-> Number(750), max_adds |-> Number(5)])]),
     DictBandsConfig([s \in {"BTCUSDT"} |->
         Override([long_exit |-> Number(450), short_exit |-> Number(950)])]),
     DictBandsConfig([s \in {"BTCUSDT"} |-> Override([f \in {"long_entry"} |-> NotANumber])]),
     DictBandsConfig([s \in {"ETHUSDT"} |-> Override([f \in {"short_exit"} |-> NotANumber])]),
     DictBandsConfig([s \in {"BTCUSDT"} |-> Override([f \in {"dca_step"} |-> NotANumber])])}

\* implied rates below, at and above each entry level in use
BandRates == {500, 550, 551, 600, 601, 749, 750, 799, 800, 900}
BandMarkets == {MarketCondition(s, 700, apr) : s \in Symbols, apr \in BandRates}
\* snapshots for the engine: a spread at entry size under a low implied rate
\* (directional entry and long band; the band alone once the store holds the
\* position) and a spread at entry size between the bands (directional entry
\* alone; nothing once the store holds the position)
EngineMarkets ==
    {MarketCondition("ETHUSDT", 900, 500), MarketCondition("BTCUSDT", 900, 700)}
\* the snapshot that moves the store while the band strategy is evaluated
StoreMarkets == {MarketCondition("ETHUSDT", 900, 500)}

\* StrategyManager(config): a new manager, without positions, its band
\* strategy holding the built-in bands with the overrides applied
Construct(bands_cfg) ==
    /\ strategy_bands' = StrategyManager_init(bands_cfg)
    /\ active_positions' = << >>
    /\ lastCheck' = NoCheck
    /\ lastCall' = [NoCall EXCEPT !.name = "StrategyManager", !.config = bands_cfg]
    /\ firstBand' = NoCall
    /\ UNCHANGED <<dirVars, gateVars, passVars>>

\* a call of the band strategy's evaluate_opportunity(market)
\* (faulty variants: the band strategy records NONE for the symbol in the
\* store; the band strategy gives no opportunity while the store holds a
\* position for the symbol)
EvaluateBands_saving(market) ==
    /\ positions_file' = save_positions(DictSet(load_positions(positions_file),
                                                 market.symbol, "NONE"))
    /\ lastCall' = [NoCall EXCEPT !.name = "evaluate_bands",
                                  !.config = lastCall.config,
                                  !.market = market,
                                  !.opportunities = evaluate_bands(strategy_bands, market).opp,
                                  !.bands = strategy_bands]
    /\ firstBand' = IF firstBand.name = "" THEN lastCall' ELSE firstBand
    /\ UNCHANGED <<pc, loaded, arg, last, lastSignal, openEnters, strategy_bands>>
    /\ UNCHANGED <<gateVars, mgrVars, passVars>>
EvaluateBands_debounced(market) ==
    LET r == IF StoredPosition(market.symbol) = "NONE"
             THEN evaluate_bands(strategy_bands, market)
             ELSE BandResult(None)
        call == [NoCall EXCEPT !.name = "evaluate_bands",
                               !.config = lastCall.config,
                               !.market = market,
                               !.raised = IF r.raised THEN "TypeError" ELSE "",
                               !.opportunities = r.opp,
                               !.bands = strategy_bands,
                               !.store = positions_file]
    IN  /\ lastCall' = call
        /\ firstBand' = IF firstBand.name = "" THEN call ELSE firstBand
        /\ UNCHANGED strategy_bands
        /\ UNCHANGED <<dirVars, gateVars, mgrVars, passVars>>
EvaluateBands(market) ==
    LET r == evaluate_bands(strategy_bands, market)
        call == [NoCall EXCEPT !.name = "evaluate_bands",
                               !.config = lastCall.config,
                               !.market = market,
                               !.raised = IF r.raised THEN "TypeError" ELSE "",
                               !.opportunities = r.opp,
                               !.bands = strategy_bands,
                               !.store = positions_file]
    IN  /\ lastCall' = call
        /\ firstBand' = IF firstBand.name = "" THEN call ELSE firstBand
        /\ UNCHANGED strategy_bands
        /\ UNCHANGED <<dirVars, gateVars, mgrVars, passVars>>

NextBands ==
    \/ \E c \in BandConfigs : Construct(c)
    \/ \E m \in BandMarkets : EvaluateBands(m)
    \/ \E m \in StoreMarkets : Evaluate(m)

SpecBands == Init /\ [][NextBands]_vars

(***************************************************************************)
(* The engine driven as test_strategies drives it: a snapshot is put to    *)
(* evaluate_all_strategies, an opportunity it returned to                  *)
(* should_execute_strategy and, when admitted, at once to execute_strategy *)
(* with the snapshot; monitor_positions and get_portfolio_summary are      *)
(* called in between, and the opportunities go to the alert gate.          *)
(***************************************************************************)
\* a call of evaluate_all_strategies(market): the directional strategy
\* reads and writes the store, the band strategy reads its bands
EvaluateAll(market) ==
    LET r == evaluate_all_strategies(positions_file, strategy_bands, market)
        d == evaluate_opportunity(positions_file, market)
    IN  /\ positions_file' = r.file
        /\ lastSignal' = SignalAfter(d, market)
        /\ openEnters' = OpenAfter(d, market)
        /\ lastCall' = [NoCall EXCEPT !.name = "evaluate_all_strategies",
                                      !.config = lastCall.config,
                                      !.market = market,
                                      !.raised = r.raised,
                                      !.opportunities = r.opportunities,
                                      !.bands = strategy_bands]
        /\ UNCHANGED <<pc, loaded, arg, last>>
        /\ UNCHANGED <<strategy_bands, firstBand>>
        /\ UNCHANGED <<gateVars, mgrVars, passVars>>

\* the opportunities the last call of evaluate_all_strategies returned
Found ==
    IF lastCall.name = "evaluate_all_strategies"
    THEN {lastCall.opportunities[i] : i \in DOMAIN lastCall.opportunities}
    ELSE {}

\* `if manager.should_execute_strategy(opportunity):
\*      position = await manager.execute_strategy(opportunity, market)`
ExecuteAdmitted(opportunity, market) ==
    LET admitted == should_execute_strategy(active_positions, opportunity)
    IN  /\ Len(active_positions) < MaxHeld
        /\ ~admitted.raised /\ admitted.value
        /\ Execute(opportunity, market)

\* a call of monitor_positions()
Monitor ==
    LET r == monitor_positions(active_positions, now)
    IN  /\ active_positions' = r.positions
        /\ lastCall' = [NoCall EXCEPT !.name = "monitor_positions",
                                      !.config = lastCall.config,
                                      !.flags = r.flags,
                                      !.positions = active_positions]
        /\ UNCHANGED <<lastCheck, strategy_bands, firstBand>>
        /\ UNCHANGED <<dirVars, gateVars, passVars>>

\* a call of get_portfolio_summary()
Summary ==
    LET r == get_portfolio_summary(active_positions)
    IN  /\ lastCall' = [name |-> "get_portfolio_summary",
                        config |-> lastCall.config,
                        raised |-> IF r.raised THEN "ZeroDivisionError" ELSE "",
                        positions |-> active_positions,
                        total_positions |-> r.total_positions,
                        total_exposure |-> r.total_exposure,
                        total_collateral |-> r.total_collateral,
                        strategies_breakdown |-> r.strategies_breakdown,
                        utilization |-> r.utilization]
        /\ UNCHANGED <<strategy_bands, firstBand>>
        /\ UNCHANGED <<dirVars, gateVars, mgrVars, passVars>>

NextEngine ==
    \/ \E m \in EngineMarkets : EvaluateAll(m)
    \/ \E m \in StoreMarkets : EvaluateBands(m)
    \/ \E o \in Found : ExecuteAdmitted(o, lastCall.market)
    \/ Monitor
    \/ Summary
    \/ \E o \in Found :
           TryAlert(lastCall.market.symbol, o["strategy"], DictGet(o, "action", << >>))

SpecEngine == Init /\ [][NextEngine]_vars

(***************************************************************************)
(* Monitoring: positions are opened at different times, time passes, and   *)
(* monitor_positions looks at them.                                        *)
(***************************************************************************)
\* the staleness threshold of monitor_positions passes
Stale ==
    /\ ticks < MaxTicks
    /\ ticks' = ticks + 1
    /\ now' = now + StaleSeconds
    /\ UNCHANGED <<last_alerts, alert_cooldown, attempts, lastAlert, emitted>>
    /\ UNCHANGED <<dirVars, mgrVars, passVars, engVars>>

NextMonitor ==
    \/ \E o \in ExecutedOpportunities, m \in ExecutedMarkets : Execute(o, m)
    \/ Monitor
    \/ Stale

SpecMonitor == Init /\ [][NextMonitor]_vars

(***************************************************************************)
(* Admitted executions: every execution follows a call of                  *)
(* should_execute_strategy that returned True for the opportunity, as in   *)
(* test_strategies, with opportunities large enough for the exposure       *)
(* ceiling and many enough for the limit per strategy kind to matter;      *)
(* get_portfolio_summary is called in between.                             *)
(***************************************************************************)
\* the snapshot the opportunities were found on, and a snapshot of a market
\* without liquidity (MarketCondition.liquidity = 0)
AdmitMarket == MarketCondition("ETHUSDT", 900, 500)
ThinMarket == [MarketCondition("BTCUSDT", 900, 500) EXCEPT !.liquidity = 0]

\* the opportunity of a strategy on a snapshot, as evaluate_all_strategies
\* tags it (the directional one from an empty store)
DirectionalFound(market) ==
    Tagged(evaluate_opportunity(MissingFile, market).opp, "simple_directional")[1]
BandFound(market) ==
    Tagged(evaluate_bands(bands_by_symbol, market).opp, "implied_apr_bands")[1]

\* opportunities put to the filter: the directional entry and the long band
\* opportunity of AdmitMarket, and directional opportunities of risk score 0
\* sized at the ceiling (5,000,000 at leverage 1.0) and at half of it
\* (1,250,000 at leverage 2.0)
AdmitOpportunities ==
    {DirectionalFound(AdmitMarket),
     BandFound(AdmitMarket),
     Opportunity("simple_directional", Some(5000000), None, Some(400), Some(0)),
     Opportunity("simple_directional", Some(1250000), Some(20), Some(400), Some(0))}

\* the band opportunity found on the market without liquidity
ThinOpportunities == {BandFound(ThinMarket)}

\* `if manager.should_execute_strategy(opportunity):
\*      position = await manager.execute_strategy(opportunity, market)`
\* when the filter returns True
AdmitAndExecute(opportunity, market) ==
    LET admitted == should_execute_strategy(active_positions, opportunity)
    IN  /\ Len(active_positions) < MaxAdmitted
        /\ ~admitted.raised /\ admitted.value
        /\ active_positions' = execute_strategy(active_positions, opportunity, market, now)
        /\ lastCheck' = [opportunity |-> opportunity, raised |-> FALSE,
                         value |-> TRUE, checked |-> TRUE]
        /\ UNCHANGED <<dirVars, gateVars, passVars, engVars>>

NextAdmit ==
    \/ \E o \in AdmitOpportunities : AdmitAndExecute(o, AdmitMarket)
    \/ \E o \in ThinOpportunities : AdmitAndExecute(o, ThinMarket)
    \/ Summary

SpecAdmit == Init /\ [][NextAdmit]_vars

(***************************************************************************)
(* The directional strategy's opportunities at the admission filter: a     *)
(* snapshot is evaluated, the opportunity that came back is put to         *)
(* should_execute_strategy and, when admitted, executed on that snapshot.  *)
(***************************************************************************)
\* snapshots of one symbol: entries on both sides (the spread at the entry
\* threshold and well above it) and an exit
FilterMarkets == {MarketCondition("ETHUSDT", 500 + d, 500) : d \in {-400, 10, 50}}

\* the opportunity the last evaluation returned, tagged with its strategy
FoundDirectional ==
    IF last[1].evaluated
    THEN {o[1] : o \in {Tagged(last[1].opp, "simple_directional")} \ {<< >>}}
    ELSE {}

\* a call of should_execute_strategy(opportunity) on an opportunity found
CheckFound(opportunity) ==
    LET r == should_execute_strategy(active_positions, opportunity)
    IN  /\ lastCheck' = [opportunity |-> opportunity, raised |-> r.raised,
                         value |-> r.value, checked |-> TRUE]
        /\ UNCHANGED active_positions
        /\ UNCHANGED <<dirVars, gateVars, passVars, engVars>>

\* execute_strategy on the opportunity just admitted
ExecuteChecked ==
    /\ lastCheck.checked
    /\ ~lastCheck.raised /\ lastCheck.value
    /\ lastCheck.opportunity \in FoundDirectional
    /\ Execute(lastCheck.opportunity, last[1].market)

NextFilter ==
    \/ \E m \in FilterMarkets : Evaluate(m)
    \/ \E o \in FoundDirectional : CheckFound(o)
    \/ ExecuteChecked

SpecFilter == Init /\ [][NextFilter]_vars

(***************************************************************************)
(* Claims: Simple Directional strategy, evaluations one after another      *)
(***************************************************************************)
SpreadOf(m) == m.cex_funding_rate - m.boros_implied_apr
InPosition(s) == StoredPosition(s) \in {"LONG", "SHORT"}

\* C1 (hysteresis): from an empty store and for every sequence of snapshots
\* evaluated one after another, a symbol whose stored position is LONG or
\* SHORT has had exactly one ENTER_* emitted since its last EXIT_*, and a
\* symbol whose stored position is NONE has had none: no ENTER_* is emitted
\* while in position, and the position ends only with an emitted EXIT_*.
C1_Hysteresis ==
    \A s \in Symbols :
        /\ openEnters[s] = (IF InPosition(s) THEN 1 ELSE 0)
        /\ InPosition(s) => lastSignal[s] = Some(<<"ENTER", "_", StoredPosition(s)>>)

\* C1 witness: a symbol in position was evaluated with an entry-sized spread
\* and no opportunity came back.
C1_Witness ==
    /\ last[1].evaluated
    /\ last[1].current_position \in {"LONG", "SHORT"}
    /\ Abs(SpreadOf(last[1].market)) >= min_spread
    /\ last[1].opp = None
    /\ InPosition(last[1].market.symbol)

\* C5 (entry rows): the last evaluation, if it found NONE stored and
\* |spread| >= e, returned ENTER_LONG for spread > 0 and ENTER_SHORT for
\* spread < 0, and the store holds LONG resp. SHORT for the symbol.
C5_EntryFromNone ==
    LET e == last[1]
        s == SpreadOf(e.market)
    IN  (e.evaluated /\ e.current_position = "NONE" /\ Abs(s) >= min_spread) =>
            /\ s > 0 => /\ e.opp # None
                        /\ e.opp[1].action = <<"ENTER", "_", "LONG">>
                        /\ StoredPosition(e.market.symbol) = "LONG"
            /\ s < 0 => /\ e.opp # None
                        /\ e.opp[1].action = <<"ENTER", "_", "SHORT">>
                        /\ StoredPosition(e.market.symbol) = "SHORT"

\* C5 witness: an entry at the bound |spread| = e, on the long side.
C5_Witness ==
    /\ last[1].evaluated
    /\ last[1].current_position = "NONE"
    /\ SpreadOf(last[1].market) = min_spread
    /\ last[1].opp # None
    /\ StoredPosition(last[1].market.symbol) = "LONG"

\* C6 (exit rows): the last evaluation, if it found LONG (SHORT) stored and
\* |spread| <= x, returned EXIT_LONG (EXIT_SHORT), the side that was stored,
\* and the store holds NONE for the symbol.
C6_ExitFromPosition ==
    LET e == last[1]
    IN  (/\ e.evaluated
         /\ e.current_position \in {"LONG", "SHORT"}
         /\ Abs(SpreadOf(e.market)) <= exit_threshold) =>
            /\ e.opp # None
            /\ e.opp[1].action = <<"EXIT", "_", e.current_position>>
            /\ e.opp[1].position_type = LowerTok(e.current_position)
            /\ StoredPosition(e.market.symbol) = "NONE"

\* C6 witness: a SHORT position left at the bound |spread| = x.
C6_Witness ==
    /\ last[1].evaluated
    /\ last[1].current_position = "SHORT"
    /\ Abs(SpreadOf(last[1].market)) = exit_threshold
    /\ last[1].opp # None
    /\ StoredPosition(last[1].market.symbol) = "NONE"

\* C7 (no signal, no effect): an evaluation of a snapshot with NONE stored
\* and |spread| < e, or with LONG/SHORT stored and |spread| > x, returns no
\* opportunity, does not call save_positions and leaves the store as it was.
C7_NoSignalNoWrite ==
    [][LET m == last'[1].market
           before == StoredPosition(m.symbol)
           a == Abs(SpreadOf(m))
       IN  (\/ before = "NONE" /\ a < min_spread
            \/ before \in {"LONG", "SHORT"} /\ a > exit_threshold) =>
               /\ last'[1].opp = None
               /\ ~last'[1].saved
               /\ positions_file' = positions_file]_vars

\* C7 witness: no signal came back while the other symbol is in position.
C7_Witness ==
    /\ last[1].evaluated
    /\ last[1].opp = None
    /\ ~last[1].saved
    /\ \E s \in Symbols : s # last[1].market.symbol /\ InPosition(s)

\* C8 (no oscillation between the thresholds): x < e, and an evaluation of a
\* snapshot with x < |spread| < e returns no opportunity and leaves the
\* store as it was, whatever position was stored; so no run of such
\* snapshots enters or exits.
C8_NoOscillation ==
    /\ exit_threshold < min_spread
    /\ [][LET m == last'[1].market
              a == Abs(SpreadOf(m))
          IN  (exit_threshold < a /\ a < min_spread) =>
                  /\ last'[1].opp = None
                  /\ positions_file' = positions_file
                  /\ lastSignal' = lastSignal]_vars

\* C8 witness: a snapshot between the thresholds met a stored position.
C8_Witness ==
    /\ last[1].evaluated
    /\ last[1].current_position \in {"LONG", "SHORT"}
    /\ exit_threshold < Abs(SpreadOf(last[1].market))
    /\ Abs(SpreadOf(last[1].market)) < min_spread
    /\ last[1].opp = None

(***************************************************************************)
(* Claims: the position store missing, empty or unreadable                 *)
(***************************************************************************)
\* the step is a call of evaluate_opportunity (not Corrupt, not Clear)
EvaluateStep ==
    \/ positions_file' = positions_file
    \/ positions_file'.state = "ok" /\ positions_file'.data # EmptyDict

\* C18 (unreadable store), as claimed: an evaluation that meets a store it
\* cannot parse does not fail; it reads NONE for the symbol and enters on a
\* spread of at least e as it would from an empty store.
C18_CorruptStoreAsEmpty ==
    last[1].read = "corrupt" =>
        /\ ~last[1].raised
        /\ last[1].current_position = "NONE"
        /\ Abs(SpreadOf(last[1].market)) >= min_spread => last[1].opp # None

\* C19 (missing store, missing record): an evaluation of a symbol for which
\* the store holds no record (no file, `{}`, or records of other symbols
\* only) reads NONE; on |spread| < e it returns nothing and leaves the
\* store as it was; on |spread| >= e it returns ENTER_*, and the store then
\* holds the record of this symbol in addition to the records it held, each
\* of those unchanged.
C19_MissingRecordIsNone ==
    [][LET e == last'[1]
           s == e.market.symbol
           a == Abs(SpreadOf(e.market))
           before == load_positions(positions_file)
           after == load_positions(positions_file')
       IN  (/\ EvaluateStep
            /\ ~JSONDecodeError(positions_file)
            /\ e.evaluated
            /\ e.read = StoreRead(positions_file, s)
            /\ s \notin DOMAIN before) =>
               /\ e.current_position = "NONE"
               /\ a < min_spread =>
                      e.opp = None /\ positions_file' = positions_file
               /\ a >= min_spread =>
                      /\ e.opp # None
                      /\ IsEnter(e.opp[1].action)
                      /\ DOMAIN after = (DOMAIN before) \cup {s}
                      /\ after[s] = e.opp[1].action[3]
                      /\ \A x \in DOMAIN before : after[x] = before[x]]_vars

\* C19 witness: the first entry of a symbol the store had no record of,
\* while the store holds the open position of the other symbol.
C19_Witness ==
    /\ last[1].evaluated
    /\ last[1].read = "no_record"
    /\ last[1].opp # None
    /\ InPosition(last[1].market.symbol)
    /\ \E x \in Symbols : x # last[1].market.symbol /\ InPosition(x)

(***************************************************************************)
(* Claims: overlapping passes                                              *)
(***************************************************************************)
\* the stored position an emitted action announces
PositionAfter(signal) ==
    IF signal = None THEN "NONE"
    ELSE IF IsEnter(signal[1]) THEN signal[1][3]
    ELSE "NONE"

\* C2 (one ENTER_* per transition), as claimed: never are two ENTER_*
\* emitted for a symbol without an EXIT_* between them.
C2_SingleEnter == \A s \in Symbols : openEnters[s] <= 1

\* C3 (no lost update), as claimed: once both passes have finished, having
\* handled different symbols, every symbol's stored position is the one its
\* last emitted signal announces.
C3_NoLostUpdate ==
    (/\ \A p \in Passes : pc[p] = "idle" /\ last[p].evaluated
     /\ last[1].market.symbol # last[2].market.symbol) =>
        \A s \in Symbols : StoredPosition(s) = PositionAfter(lastSignal[s])

(***************************************************************************)
(* Claims: the alert gate                                                  *)
(***************************************************************************)
\* the gate's answer now
Allowed(s, t, a) == should_send_alert(last_alerts, now, alert_cooldown, s, t, a)
\* a cooldown is running for the key of (s, t, a)
CoolingDown(s, t, a) ==
    LET key == AlertKey(s, t, ActionPart(a))
    IN  key \in DOMAIN last_alerts /\ now - last_alerts[key] < alert_cooldown

\* C4 (exit bypass): whatever the cooldown map holds and whatever the time,
\* should_send_alert answers true for every action that begins with EXIT,
\* and no gated attempt with such an action was refused.
C4_ExitBypassesCooldown ==
    /\ \A s \in Symbols, t \in Strategies, a \in QueryActions :
           StartsWith(a, <<"EXIT">>) => Allowed(s, t, a)
    /\ (lastAlert.tried /\ StartsWith(lastAlert.action, <<"EXIT">>)) => lastAlert.allowed

\* C4 witness: an exit alert went out while the cooldown of an earlier alert
\* under the very same key was running.
C4_Witness ==
    /\ lastAlert.tried
    /\ StartsWith(lastAlert.action, <<"EXIT">>)
    /\ lastAlert.allowed
    /\ lastAlert.since # None
    /\ lastAlert.since[1] < alert_cooldown

\* C9 (independent cooldown keys): right after an ENTER_LONG alert the
\* EXIT_LONG of the same symbol and strategy is allowed, and an alert that
\* is sent changes the gate's answer for no other (symbol, strategy, action):
\* an exit alert never changes the answer for an entry, nor an entry alert
\* the answer for an exit or for another side, symbol or strategy.
C9_IndependentKeys ==
    [][/\ \A s \in Symbols, t \in Strategies :
              (/\ AlertKey(s, t, ENTER_LONG) \in DOMAIN last_alerts'
               /\ last_alerts'[AlertKey(s, t, ENTER_LONG)] = now')
              => should_send_alert(last_alerts', now', alert_cooldown', s, t, EXIT_LONG)
       /\ last_alerts' # last_alerts =>
              \A s \in Symbols, t \in Strategies, a \in QueryActions :
                  <<s, t, ActionPart(a)>> #
                      <<lastAlert'.symbol, lastAlert'.strategy_type, ActionPart(lastAlert'.action)>>
                  => (should_send_alert(last_alerts', now', alert_cooldown', s, t, a)
                          = should_send_alert(last_alerts, now, alert_cooldown, s, t, a))]_vars

\* C9 witness: EXIT_LONG was let through while the ENTER_LONG alert of the
\* same symbol and strategy, sent at this very time, is cooling down.
C9_Witness ==
    /\ lastAlert.tried
    /\ lastAlert.action = EXIT_LONG
    /\ lastAlert.allowed
    /\ CoolingDown(lastAlert.symbol, lastAlert.strategy_type, ENTER_LONG)
    /\ last_alerts[AlertKey(lastAlert.symbol, lastAlert.strategy_type, ENTER_LONG)] = now
    /\ ~Allowed(lastAlert.symbol, lastAlert.strategy_type, ENTER_LONG)

\* C10 (cooldown window), as claimed: a non-exit attempt is refused exactly
\* when its key has alerted before and less than the window has passed
\* since; at or beyond the window, or with no earlier alert, it is allowed.
C10_SuppressedIffBelowWindow ==
    (lastAlert.tried /\ ~StartsWith(ActionPart(lastAlert.action), <<"EXIT">>)) =>
        (lastAlert.allowed <=>
            ~(lastAlert.since # None /\ lastAlert.since[1] < alert_cooldown))

\* the cooldown key of a (symbol, strategy, action part) triple
KeyOf(k) == AlertKey(k[1], k[2], k[3])

\* C11 (cooldown separation): for every key that is not an exit key, any two
\* alerts sent under it one after the other, in whatever order the attempts
\* of the passes come, are at least alert_cooldown seconds apart.
C11_CooldownSeparation ==
    \A k \in DOMAIN emitted :
        ~StartsWith(k[3], <<"EXIT">>) =>
            \A i \in 1..(Len(emitted[k]) - 1) :
                emitted[k][i + 1] - emitted[k][i] >= alert_cooldown

\* C11 witness: with the default window, a second ENTER_LONG alert went out
\* under a key that had alerted before.
C11_Witness ==
    /\ alert_cooldown = DefaultAlertCooldown
    /\ \E k \in DOMAIN emitted :
           /\ k[3] = ENTER_LONG
           /\ Len(emitted[k]) >= 2
           /\ lastAlert.allowed
           /\ lastAlert.since # None

\* C12 (the map holds the last alert time): after every step the cooldown
\* map has exactly the keys under which an alert was sent, each holding the
\* time of the latest alert sent under it; an allowed attempt sets its own
\* key to the current time and leaves every other entry as it was; a
\* refused attempt, and a step that is no attempt, leave the map as it was.
C12_MapHoldsLastAlert ==
    [][/\ DOMAIN last_alerts' = {KeyOf(k) : k \in DOMAIN emitted'}
       /\ \A k \in DOMAIN emitted' :
              last_alerts'[KeyOf(k)] = emitted'[k][Len(emitted'[k])]
       /\ IF attempts' # attempts /\ lastAlert'.allowed
          THEN LET key == AlertKey(lastAlert'.symbol, lastAlert'.strategy_type,
                                   ActionPart(lastAlert'.action))
               IN  /\ DOMAIN last_alerts' = (DOMAIN last_alerts) \cup {key}
                   /\ last_alerts'[key] = now
                   /\ \A x \in DOMAIN last_alerts :
                          x # key => last_alerts'[x] = last_alerts[x]
          ELSE last_alerts' = last_alerts]_vars

\* C12 witness: an alert was sent now under one key while another key keeps
\* the earlier time of its own last alert.
C12_Witness ==
    /\ lastAlert.tried
    /\ lastAlert.allowed
    /\ last_alerts[AlertKey(lastAlert.symbol, lastAlert.strategy_type,
                            ActionPart(lastAlert.action))] = now
    /\ \E x \in DOMAIN last_alerts : last_alerts[x] < now

(***************************************************************************)
(* Claims: the Strategy Manager's admission filter                         *)
(***************************************************************************)
\* open positions of a strategy kind
OpenOfKind(kind) ==
    Cardinality({i \in DOMAIN active_positions : active_positions[i].strategy = kind})
\* exposure of the first n open positions, in tenths of a dollar
RECURSIVE ExposureUpTo(_)
ExposureUpTo(n) ==
    IF n = 0 THEN 0
    ELSE active_positions[n].size * active_positions[n].leverage + ExposureUpTo(n - 1)
OpenExposure == ExposureUpTo(Len(active_positions))
\* the ceiling of 5,000,000 dollars in tenths of a dollar
Ceiling == 50000000
\* the fields of the opportunity last checked, absent ones at their defaults
HasSize == "max_position_size" \in DOMAIN lastCheck.opportunity
NewExposure ==
    lastCheck.opportunity["max_position_size"]
        * DictGet(lastCheck.opportunity, "recommended_leverage", 10)
ReturnOk ==
    LET k == lastCheck.opportunity["strategy"]
    IN  DictGet(lastCheck.opportunity, "expected_apy", 0)
            >= (IF k = "simple_directional" THEN 50
                ELSE IF k = "implied_apr_bands" THEN 100 ELSE 1000)
RiskOk ==
    LET k == lastCheck.opportunity["strategy"]
    IN  DictGet(lastCheck.opportunity, "risk_score", 100)
            <= (IF k = "simple_directional" THEN 50
                ELSE IF k = "implied_apr_bands" THEN 70 ELSE 60)
CountOk == OpenOfKind(lastCheck.opportunity["strategy"]) < 3

\* C14 (the four checks): a call of should_execute_strategy that returns,
\* returns true exactly when fewer than 3 positions of the kind are open,
\* the open exposure plus size times leverage is at most the ceiling, the
\* expected return is at least the kind's minimum and the risk score at
\* most the kind's maximum; so each failing check alone rejects.
C14_AcceptsIffAllFour ==
    (lastCheck.checked /\ ~lastCheck.raised) =>
        (lastCheck.value <=>
            /\ CountOk
            /\ HasSize
            /\ OpenExposure + NewExposure <= Ceiling
            /\ ReturnOk
            /\ RiskOk)

\* C14 witness: with a position open, an opportunity passing the position,
\* exposure and return checks was rejected for its risk score alone.
C14_Witness ==
    /\ lastCheck.checked
    /\ ~lastCheck.raised
    /\ ~lastCheck.value
    /\ Len(active_positions) >= 1
    /\ CountOk
    /\ HasSize
    /\ OpenExposure + NewExposure <= Ceiling
    /\ ReturnOk
    /\ ~RiskOk

\* C15 (exposure boundary): an opportunity that takes the open exposure
\* above the ceiling is rejected; one that takes it exactly to the ceiling
\* and passes the other three checks is accepted.
C15_ExposureBoundary ==
    (lastCheck.checked /\ ~lastCheck.raised /\ HasSize /\ CountOk) =>
        /\ OpenExposure + NewExposure > Ceiling => ~lastCheck.value
        /\ (OpenExposure + NewExposure = Ceiling /\ ReturnOk /\ RiskOk)
               => lastCheck.value

\* C15 witness: with a position open, an opportunity that brings the total
\* exactly to the ceiling was accepted.
C15_Witness ==
    /\ lastCheck.checked
    /\ lastCheck.value
    /\ Len(active_positions) >= 1
    /\ OpenExposure > 0
    /\ OpenExposure + NewExposure = Ceiling

\* C16 (never raises), as claimed: every call of should_execute_strategy
\* returns a boolean, whichever of size, leverage, expected return and risk
\* score the opportunity lacks, and an opportunity without a risk score is
\* rejected.
C16_NeverRaises ==
    lastCheck.checked =>
        /\ ~lastCheck.raised
        /\ "risk_score" \notin DOMAIN lastCheck.opportunity => ~lastCheck.value

(***************************************************************************)
(* Claims: the analysis pass                                               *)
(***************************************************************************)
\* a record with the symbol and the three numeric fields
WellFormed(record) ==
    {"market", "implied", "underlying", "spread"} \subseteq DOMAIN record
\* the symbol was evaluated in the last pass
EvaluatedInPass(symbol) ==
    \E k \in DOMAIN lastPass.evaluated : lastPass.evaluated[k] = symbol

\* C13 (admission before alert), as claimed: every alert sent in a pass is
\* for an opportunity that should_execute_strategy accepts.
C13_AlertOnlyIfAdmitted ==
    \A i \in DOMAIN lastPass.sent :
        should_execute_strategy(active_positions, lastPass.sent[i].opportunity)
            = Returned(TRUE)

\* C17 (malformed record), as claimed: in every pass, each symbol of the
\* batch whose records are all well formed is evaluated, wherever in the
\* batch a malformed record of another symbol stands.
C17_MalformedSkipsOnlyThatSymbol ==
    lastPass.number > 0 =>
        \A i \in DOMAIN lastPass.records :
            (\A j \in DOMAIN lastPass.records :
                lastPass.records[j]["market"] = lastPass.records[i]["market"]
                    => WellFormed(lastPass.records[j]))
            => EvaluatedInPass(lastPass.records[i]["market"])

\* C20 (delivery failure): whatever the webhook does with the posts of a
\* pass and did with those of earlier passes, a pass over well-formed
\* records ends without an exception and has evaluated every symbol of its
\* batch, in the batch's order.
C20_DeliveryFailureContained ==
    (/\ lastPass.number > 0
     /\ \A i \in DOMAIN lastPass.records : WellFormed(lastPass.records[i])) =>
        /\ lastPass.raised = ""
        /\ lastPass.evaluated = SymbolOrder(lastPass.records)

\* C20 witness: after a pass with a failed delivery, a pass in which
\* requests.post raised sent the alerts of its first symbol, went on to its
\* second symbol, sent an alert for that one too and ended normally.
C20_Witness ==
    /\ lastPass.failed_before
    /\ lastPass.webhook = "exception"
    /\ lastPass.raised = ""
    /\ Len(lastPass.evaluated) = 2
    /\ \E i, j \in DOMAIN lastPass.sent :
           /\ i < j
           /\ lastPass.sent[i].symbol = lastPass.evaluated[1]
           /\ lastPass.sent[j].symbol = lastPass.evaluated[2]
           /\ ~lastPass.sent[i].delivered

(***************************************************************************)
(* Claims: the engine (evaluation of all strategies, execution, frame)     *)
(***************************************************************************)
\* the step is a call of the named manager or band strategy method
Called(name) == lastCall' # lastCall /\ lastCall'.name = name

\* C21 (the store belongs to the directional strategy): a step that is a band
\* evaluation, an admission with its execution, a call of monitor_positions
\* or of get_portfolio_summary, or an attempt at the alert gate, leaves
\* positions_state.json, and so every symbol's stored position, as it was.
C21_StoreOwnedByDirectional ==
    [][(\/ Called("evaluate_bands")
        \/ Called("monitor_positions")
        \/ Called("get_portfolio_summary")
        \/ active_positions' # active_positions
        \/ attempts' # attempts)
       => /\ positions_file' = positions_file
          /\ \A s \in Symbols :
                 DictGet(load_positions(positions_file'), s, "NONE") = StoredPosition(s)]_vars

\* both symbols hold a position in the store, a position is open, the gate
\* was tried, and a summary was just taken
C21_Witness ==
    /\ \A s \in Symbols : InPosition(s)
    /\ active_positions # << >>
    /\ attempts > 0
    /\ lastCall.name = "get_portfolio_summary"

\* the position of the first opportunity of the given kind in a list (0: none)
IndexOfKind(opportunities, kind) ==
    IF \E i \in DOMAIN opportunities : opportunities[i]["strategy"] = kind
    THEN CHOOSE i \in DOMAIN opportunities :
             /\ opportunities[i]["strategy"] = kind
             /\ \A j \in 1..(i - 1) : opportunities[j]["strategy"] # kind
    ELSE 0

\* C25 (all strategies, in registration order): after a call of
\* evaluate_all_strategies that returned, the list holds at most one
\* opportunity of each strategy kind and no other; the directional
\* opportunity is there exactly when the directional strategy gave one on
\* the store as it was, the band opportunity exactly when the band strategy
\* gave one, each as its strategy gave it plus the tag, and the directional
\* one comes first.
C25_AllStrategiesInOrder ==
    [][Called("evaluate_all_strategies") /\ lastCall'.raised = ""
       => LET found == lastCall'.opportunities
              market == lastCall'.market
              d == evaluate_opportunity(positions_file, market).opp
              b == evaluate_bands(strategy_bands, market).opp
              di == IndexOfKind(found, "simple_directional")
              bi == IndexOfKind(found, "implied_apr_bands")
          IN  /\ Len(found) = (IF d = None THEN 0 ELSE 1) + (IF b = None THEN 0 ELSE 1)
              /\ \A i \in DOMAIN found : found[i]["strategy"] \in Strategies
              /\ \A i, j \in DOMAIN found :
                     found[i]["strategy"] = found[j]["strategy"] => i = j
              /\ d # None <=> di # 0
              /\ b # None <=> bi # 0
              /\ d # None => /\ di = 1
                             /\ \A f \in DOMAIN d[1] : found[di][f] = d[1][f]
              /\ b # None => /\ bi = Len(found)
                             /\ \A f \in DOMAIN b[1] : found[bi][f] = b[1][f]]_vars

\* a call returned a directional opportunity followed by a band opportunity
C25_Witness ==
    /\ lastCall.name = "evaluate_all_strategies"
    /\ Len(lastCall.opportunities) = 2
    /\ lastCall.opportunities[1]["strategy"] = "simple_directional"
    /\ lastCall.opportunities[2]["strategy"] = "implied_apr_bands"

\* C27 (execution appends one position): a step that executes an admitted
\* opportunity leaves the positions recorded before in place and adds one
\* after them, whose size is max_position_size * (1 - risk_score) * 0.5 and
\* whose strategy kind, symbol and leverage are those of the opportunity and
\* its snapshot.
C27_ExecutionAppendsOne ==
    [][active_positions' # active_positions
       => \E o \in Found :
              LET new == active_positions'[Len(active_positions')]
              IN  /\ should_execute_strategy(active_positions, o) = Returned(TRUE)
                  /\ Len(active_positions') = Len(active_positions) + 1
                  /\ SubSeq(active_positions', 1, Len(active_positions)) = active_positions
                  /\ 200 * new.size = o["max_position_size"] * (100 - o["risk_score"])
                  /\ new.strategy = o["strategy"]
                  /\ new.symbol = lastCall.market.symbol
                  /\ new.leverage = DictGet(o, "recommended_leverage", DefaultLeverage)]_vars

\* a directional position (50,000 at risk 0.3: 17,500) was opened, then a
\* band position (30,000 at risk 0.5: 7,500) on top of it
C27_Witness ==
    /\ Len(active_positions) = 2
    /\ active_positions[1].strategy = "simple_directional"
    /\ active_positions[1].size = 17500
    /\ active_positions[2].strategy = "implied_apr_bands"
    /\ active_positions[2].size = 7500

(***************************************************************************)
(* Claims: the band strategy and its configuration                         *)
(***************************************************************************)
\* the last call was a band evaluation that returned
BandReturned == lastCall.name = "evaluate_bands" /\ lastCall.raised = ""
\* the bands that evaluation read, and its snapshot's implied rate
CallBands == get_bands(lastCall.bands, lastCall.market.symbol)
CallApr == lastCall.market.boros_implied_apr
\* the entry levels are numbers, the long entry below the short entry
BandsInOrder ==
    /\ CallBands.long_entry.numeric
    /\ CallBands.short_entry.numeric
    /\ CallBands.long_entry.value < CallBands.short_entry.value

\* C22 (band signals): with the long entry level below the short entry
\* level, a band evaluation returns a long opportunity when the implied
\* rate is at or below long_entry, a short opportunity when it is at or
\* above short_entry, and nothing when it is strictly between them.
C22_BandSignals ==
    BandReturned /\ BandsInOrder
    => LET found == lastCall.opportunities
       IN  /\ CallApr <= CallBands.long_entry.value
                => found # None /\ found[1].position_type = "long"
           /\ CallApr >= CallBands.short_entry.value
                => found # None /\ found[1].position_type = "short"
           /\ (CallApr > CallBands.long_entry.value /\ CallApr < CallBands.short_entry.value)
                => found = None

\* at the long entry level itself (0.06 on the default bands) a long
\* opportunity was returned
C22_Witness ==
    /\ BandReturned
    /\ CallBands = default_bands
    /\ CallApr = 600
    /\ lastCall.opportunities # None
    /\ lastCall.opportunities[1].position_type = "long"

\* C23 (expected move and return): the expected move of a band opportunity
\* is never negative; it is long_exit - apr for a long and apr - short_exit
\* for a short when that difference is positive, and 0 otherwise; the
\* expected return is four times the expected move.
C23_ExpectedMove ==
    BandReturned /\ lastCall.opportunities # None
    => LET o == lastCall.opportunities[1]
           diff == IF o.position_type = "long"
                   THEN CallBands.long_exit.value - CallApr
                   ELSE CallApr - CallBands.short_exit.value
       IN  /\ o.position_type \in {"long", "short"}
           /\ o.expected_move >= 0
           /\ diff > 0 => o.expected_move = diff
           /\ diff <= 0 => o.expected_move = 0
           /\ o.expected_apy = 4 * o.expected_move

\* long_entry 0.06, long_exit 0.068, implied rate 0.05: expected move 0.018,
\* expected return 0.072
C23_Witness ==
    /\ BandReturned
    /\ CallBands.long_entry = Number(600)
    /\ CallBands.long_exit = Number(680)
    /\ CallApr = 500
    /\ lastCall.opportunities # None
    /\ lastCall.opportunities[1].expected_move = 180
    /\ lastCall.opportunities[1].expected_apy = 720

Malformed(bands_cfg) ==
    \/ bands_cfg.type = "list"
    \/ /\ bands_cfg.type = "dict"
       /\ \E sym \in DOMAIN bands_cfg.items :
              \/ bands_cfg.items[sym].type # "dict"
              \/ \E f \in DOMAIN bands_cfg.items[sym].fields :
                     ~bands_cfg.items[sym].fields[f].numeric

\* C28 (malformed band overrides), as claimed: on a manager built from a
\* malformed `implied_apr_bands` value, every band evaluation returns, and
\* returns what it returns on a manager built without overrides.
C28_MalformedConfigUsesDefaults ==
    (lastCall.name = "evaluate_bands" /\ Malformed(lastCall.config))
    => /\ lastCall.raised = ""
       /\ lastCall.opportunities
              = evaluate_bands(StrategyManager_init(NoBandsConfig), lastCall.market).opp

\* C29 (overrides are merged over the defaults): right after the manager is
\* built, a symbol with an override entry has each level of the entry as the
\* entry gives it and each other level as default_bands gives it; a symbol
\* with neither an override entry nor built-in bands gets default_bands; a
\* symbol with built-in bands and no override entry keeps them.
C29_OverridesMerged ==
    lastCall.name = "StrategyManager"
    => LET cfg == lastCall.config
           overridden == IF cfg.type = "dict"
                         THEN {sym \in DOMAIN cfg.items : cfg.items[sym].type = "dict"}
                         ELSE {}
       IN  \A sym \in Symbols :
               LET bands == get_bands(strategy_bands, sym)
               IN  /\ sym \in overridden
                        => /\ \A f \in DOMAIN cfg.items[sym].fields :
                                  bands[f] = cfg.items[sym].fields[f]
                           /\ \A f \in (DOMAIN default_bands) \ (DOMAIN cfg.items[sym].fields) :
                                  f \in DOMAIN bands /\ bands[f] = default_bands[f]
                   /\ (sym \notin overridden /\ sym \notin DOMAIN bands_by_symbol)
                        => bands = default_bands
                   /\ (sym \notin overridden /\ sym \in DOMAIN bands_by_symbol)
                        => bands = bands_by_symbol[sym]

\* ETHUSDT was given long_entry 0.055 alone: its long exit is the default
\* 0.068, not the built-in 0.0685, and BTCUSDT has the default bands
C29_Witness ==
    /\ lastCall.name = "StrategyManager"
    /\ lastCall.config.type = "dict"
    /\ "ETHUSDT" \in DOMAIN strategy_bands
    /\ strategy_bands["ETHUSDT"].long_entry = Number(550)
    /\ strategy_bands["ETHUSDT"].long_exit = Number(680)
    /\ strategy_bands["ETHUSDT"].max_adds = Number(2)
    /\ get_bands(strategy_bands, "BTCUSDT") = default_bands

(***************************************************************************)
(* Claims: one evaluation per symbol and pass                              *)
(***************************************************************************)
\* the highest implied rate among the records of a symbol
HighestImplied(records, symbol) ==
    LET rates == {records[i]["implied"] :
                     i \in {j \in DOMAIN records : records[j]["market"] = symbol}}
    IN  CHOOSE x \in rates : \A y \in rates : y <= x

\* C26 (one evaluation per symbol): in a pass that ends without an exception,
\* each symbol of the batch is evaluated once, on a snapshot made from a
\* record of that symbol with the highest implied rate among the symbol's
\* records; the symbol's stored position after the pass is the one that
\* single directional evaluation leaves, and at most one directional alert
\* is sent for the symbol.
C26_OneEvaluationPerSymbol ==
    [][(lastPass'.number = lastPass.number + 1 /\ lastPass'.raised = "")
       => \A sym \in Symbols :
              LET records == lastPass'.records
                  mine == {i \in DOMAIN records : records[i]["market"] = sym}
                  at == {k \in DOMAIN lastPass'.evaluated : lastPass'.evaluated[k] = sym}
                  after == DictGet(load_positions(positions_file'), sym, "NONE")
              IN  IF mine = {}
                  THEN at = {} /\ after = StoredPosition(sym)
                  ELSE /\ Cardinality(at) = 1
                       /\ \A k \in at :
                              LET snapshot == lastPass'.snapshots[k]
                                  r == evaluate_loaded(load_positions(positions_file), snapshot)
                              IN  /\ snapshot.symbol = sym
                                  /\ snapshot.boros_implied_apr = HighestImplied(records, sym)
                                  /\ \E i \in mine :
                                         snapshot = MarketCondition(sym, records[i]["underlying"],
                                                                    records[i]["implied"])
                                  /\ after = IF r.saved THEN r.positions[sym]
                                             ELSE StoredPosition(sym)
                       /\ Cardinality({j \in DOMAIN lastPass'.sent :
                                          /\ lastPass'.sent[j].symbol = sym
                                          /\ lastPass'.sent[j].strategy_type
                                                 = "simple_directional"}) <= 1]_vars

\* a batch held a record of ETHUSDT, one of BTCUSDT and a second of ETHUSDT
\* with a higher implied rate than the first; ETHUSDT was evaluated once, on
\* the second of its records, and BTCUSDT once
C26_Witness ==
    /\ lastPass.number > 0
    /\ lastPass.raised = ""
    /\ Len(lastPass.records) = 3
    /\ lastPass.records[1]["market"] = lastPass.records[3]["market"]
    /\ lastPass.records[1]["implied"] < lastPass.records[3]["implied"]
    /\ Len(lastPass.evaluated) = 2
    /\ lastPass.snapshots[1].symbol = lastPass.records[1]["market"]
    /\ lastPass.snapshots[1].boros_implied_apr = lastPass.records[3]["implied"]

(***************************************************************************)
(* Claims: monitoring                                                      *)
(***************************************************************************)
\* C30 (monitoring closes nothing): a call of monitor_positions leaves the
\* list of open positions, with every field of every position, as it was.
C30_MonitorClosesNothing ==
    [][Called("monitor_positions") => active_positions' = active_positions]_vars

\* monitor_positions looked at two positions, the first older than seven
\* days and the second not, and both are still there
C30_Witness ==
    /\ lastCall.name = "monitor_positions"
    /\ Len(lastCall.positions) >= 2
    /\ lastCall.flags[1] = "OLD POSITION"
    /\ lastCall.flags[2] = ""
    /\ active_positions = lastCall.positions

(***************************************************************************)
(* Claims: the values of the store and of the emitted actions; a snapshot  *)
(* evaluated twice                                                         *)
(***************************************************************************)
StoreValues == {"NONE", "LONG", "SHORT"}
DirectionalActions == {ENTER_LONG, ENTER_SHORT, EXIT_LONG, EXIT_SHORT}

\* C32 (value domains): from a missing store, in every reachable state every
\* record of the store, and the position read for every symbol, is one of
\* NONE, LONG, SHORT, and every action the directional strategy emitted (the
\* last opportunity returned, the last signal of every symbol) is one of
\* ENTER_LONG, ENTER_SHORT, EXIT_LONG, EXIT_SHORT.
C32_StoreAndActionValues ==
    /\ \A k \in DOMAIN positions_file.data : positions_file.data[k] \in StoreValues
    /\ \A s \in Symbols : StoredPosition(s) \in StoreValues
    /\ last[1].opp # None => last[1].opp[1].action \in DirectionalActions
    /\ \A s \in Symbols :
           lastSignal[s] # None => lastSignal[s][1] \in DirectionalActions

\* C32 witness: the store holds a record NONE for one symbol (left by an
\* exit) and SHORT for the other, and the last opportunity is an EXIT_LONG.
C32_Witness ==
    /\ positions_file.state = "ok"
    /\ DOMAIN positions_file.data = Symbols
    /\ \E s, t \in Symbols :
           /\ positions_file.data[s] = "NONE"
           /\ positions_file.data[t] = "SHORT"
    /\ last[1].opp # None
    /\ last[1].opp[1].action = EXIT_LONG

\* C35 (a snapshot evaluated twice in a row): when an evaluation has emitted
\* an opportunity (ENTER_* or EXIT_*), the next evaluation, if it is of the
\* identical snapshot, emits nothing, does not write the store and leaves it
\* as the first evaluation left it.
C35_SecondEvaluationSilent ==
    [][(/\ last[1].evaluated
        /\ last[1].opp # None
        /\ last'[1].market = last[1].market) =>
           /\ last'[1].evaluated
           /\ last'[1].opp = None
           /\ ~last'[1].saved
           /\ positions_file' = positions_file]_vars

\* C35 witness: a snapshot with the spread exactly at the exit threshold
\* was evaluated with NONE stored, the symbol's last signal being the EXIT
\* that snapshot's size of spread produces, and nothing came back.
C35_Witness ==
    /\ last[1].evaluated
    /\ last[1].current_position = "NONE"
    /\ Abs(SpreadOf(last[1].market)) = exit_threshold
    /\ lastSignal[last[1].market.symbol] \in {Some(EXIT_LONG), Some(EXIT_SHORT)}
    /\ last[1].opp = None
    /\ ~last[1].saved

(***************************************************************************)
(* Claims: admitted executions and the portfolio summary                   *)
(***************************************************************************)
\* `size * leverage` summed over a list of positions, in tenths of a dollar
RECURSIVE ExposureOf(_)
ExposureOf(positions) ==
    IF positions = << >> THEN 0
    ELSE Head(positions).size * Head(positions).leverage + ExposureOf(Tail(positions))

\* C34 (limits kept by admitted executions): after any sequence of
\* executions each preceded by a should_execute_strategy that returned True,
\* with risk scores in [0, 1], the open exposure (sum of size times
\* leverage) is at most the ceiling of 5,000,000 and every strategy kind has
\* at most 3 open positions.
C34_AdmittedWithinLimits ==
    /\ OpenExposure <= Ceiling
    /\ \A k \in Strategies : OpenOfKind(k) <= 3

\* C34 witness: three directional positions are open, the last one admitted
\* with three quarters of the ceiling already in use or asked for
C34_Witness ==
    /\ OpenOfKind("simple_directional") = 3
    /\ lastCheck.checked /\ lastCheck.value
    /\ lastCheck.opportunity["strategy"] = "simple_directional"
    /\ 4 * OpenExposure >= 3 * Ceiling
    /\ \A i \in DOMAIN active_positions : active_positions[i].size > 0

\* C38 (summary never fails), as claimed: get_portfolio_summary returns for
\* every list of positions opened by admitted executions, positions of size
\* 0 included; the total exposure is the sum of size times leverage, the
\* utilization that sum over the ceiling; without positions the summary
\* holds zero positions, exposure and collateral.
C38_SummaryNeverFails ==
    lastCall.name = "get_portfolio_summary" =>
        /\ lastCall.raised = ""
        /\ lastCall.positions = << >> =>
               /\ lastCall.total_positions = 0
               /\ lastCall.total_exposure = 0
               /\ lastCall.total_collateral = 0
        /\ lastCall.positions # << >> =>
               /\ lastCall.total_positions = Len(lastCall.positions)
               /\ lastCall.total_exposure = ExposureOf(lastCall.positions)
               /\ lastCall.utilization * (Ceiling \div 1000000)
                      = ExposureOf(lastCall.positions)

(***************************************************************************)
(* Claims: the directional strategy's opportunities at the filter          *)
(***************************************************************************)
\* C36 (exits rejected, entries pass return and risk): a call of
\* should_execute_strategy on an opportunity of the directional strategy
\* returns; on an EXIT_* it returns False, the expected return 0 being below
\* the minimum 0.005; on an ENTER_* the expected return (|spread| >= 0.005)
\* and the risk score (0.3 <= 0.5) pass, so that it returns True exactly
\* when the position limit and the exposure ceiling allow it.
C36_ExitsRejectedEntriesPass ==
    (/\ lastCheck.checked
     /\ lastCheck.opportunity["strategy"] = "simple_directional"
     /\ "action" \in DOMAIN lastCheck.opportunity) =>
        LET action == lastCheck.opportunity["action"]
        IN  /\ ~lastCheck.raised
            /\ IsExit(action) =>
                   /\ lastCheck.opportunity["expected_apy"] = 0
                   /\ ~ReturnOk
                   /\ ~lastCheck.value
            /\ IsEnter(action) =>
                   /\ lastCheck.opportunity["expected_apy"] >= 50
                   /\ lastCheck.opportunity["risk_score"] = 30
                   /\ ReturnOk
                   /\ RiskOk
                   /\ lastCheck.value <=>
                          (CountOk /\ OpenExposure + NewExposure <= Ceiling)

\* C36 witness: an EXIT_SHORT was rejected while the position opened on the
\* admitted ENTER_SHORT is open, with
\* fewer than three positions open
C36_Witness ==
    /\ lastCheck.checked
    /\ ~lastCheck.raised
    /\ ~lastCheck.value
    /\ "action" \in DOMAIN lastCheck.opportunity
    /\ lastCheck.opportunity["action"] = EXIT_SHORT
    /\ Len(active_positions) \in 1..2
    /\ active_positions[Len(active_positions)].position_type = "short"

(***************************************************************************)
(* Claims: alerts over several cycles of a symbol                          *)
(***************************************************************************)
\* the step is an analysis pass
PassStep == lastPass'.number = lastPass.number + 1
\* the pass sent an alert for the symbol, the strategy and the action
SentIn(pass, symbol, strategy_type, action) ==
    \E i \in DOMAIN pass.sent :
        /\ pass.sent[i].symbol = symbol
        /\ pass.sent[i].strategy_type = strategy_type
        /\ pass.sent[i].action = action
\* the cooldown key of the band alerts of a symbol
BandKey(symbol) == <<symbol, "_", "implied_apr_bands">>

\* C31 (exits are always alerted): in an analysis pass, for every symbol
\* evaluated, an EXIT_* opportunity returned by the directional strategy on
\* the store as the pass found it is followed by an alert with that action
\* in the same pass, under both configurations and whatever last_alerts
\* holds.
C31_ExitAlwaysAlerted ==
    [][PassStep =>
          \A i \in DOMAIN lastPass'.snapshots :
              LET m == lastPass'.snapshots[i]
                  d == evaluate_opportunity(positions_file, m)
              IN  (d.opp # None /\ IsExit(d.opp[1].action)) =>
                      SentIn(lastPass', m.symbol, "simple_directional",
                             d.opp[1].action)]_vars

\* C31 witness: the fourth pass of a bot with the default cooldown, the
\* clock not having advanced since it started, sent an EXIT_LONG alert; the
\* ENTER_LONG alert of the position it leaves is as old as the pass.
C31_Witness ==
    /\ lastPass.number = 4
    /\ ticks = 0
    /\ alert_cooldown = DefaultAlertCooldown
    /\ SentIn(lastPass, "ETHUSDT", "simple_directional", EXIT_LONG)
    /\ AlertKey("ETHUSDT", "simple_directional", EXIT_LONG) \in DOMAIN last_alerts
    /\ AlertKey("ETHUSDT", "simple_directional", ENTER_LONG) \in DOMAIN last_alerts
    /\ StoredPosition("ETHUSDT") = "NONE"

\* C33 (no unannounced entry), as claimed: an analysis pass that takes a
\* symbol's stored position from NONE to LONG or SHORT sends an ENTER_*
\* alert of that side for the symbol in the same pass.
C33_EntryAlwaysAnnounced ==
    [][PassStep =>
          \A s \in Symbols :
              (StoredPosition(s) = "NONE" /\ StoredPosition(s)' \in {"LONG", "SHORT"}) =>
                  SentIn(lastPass', s, "simple_directional",
                         <<"ENTER", "_", StoredPosition(s)'>>)]_vars

\* C37 (band alerts share one key): the band strategy's opportunity on a
\* snapshot of a pass carries no action; a band alert is sent without an
\* action and recorded under the key symbol + strategy kind, whichever side
\* it is; and no band alert of either side is sent for a symbol while less
\* than alert_cooldown seconds have passed since the last band alert of the
\* symbol.
C37_BandAlertsShareKey ==
    [][PassStep =>
          /\ \A i \in DOMAIN lastPass'.snapshots :
                 LET b == evaluate_bands(strategy_bands, lastPass'.snapshots[i])
                 IN  b.opp # None => "action" \notin DOMAIN b.opp[1]
          /\ \A i \in DOMAIN lastPass'.sent :
                 LET a == lastPass'.sent[i]
                 IN  a.strategy_type = "implied_apr_bands" =>
                         /\ a.action = << >>
                         /\ BandKey(a.symbol) \in DOMAIN last_alerts'
                         /\ last_alerts'[BandKey(a.symbol)] = now
          /\ \A s \in Symbols :
                 (/\ BandKey(s) \in DOMAIN last_alerts
                  /\ now - last_alerts[BandKey(s)] < alert_cooldown) =>
                     \A i \in DOMAIN lastPass'.sent :
                         ~(/\ lastPass'.sent[i].symbol = s
                           /\ lastPass'.sent[i].strategy_type = "implied_apr_bands")
          /\ \A k \in DOMAIN last_alerts' :
                 (Len(k) > 3 /\ SubSeq(k, 1, 3) \in {BandKey(s) : s \in Symbols}) =>
                     k \in DOMAIN last_alerts]_vars

\* C37 witness: the second pass, one clock advance after the first, met an
\* implied rate above the short band; it sent the EXIT_LONG of the position
\* the first pass had entered (so the first pass, on the low rate, sent the
\* long band alert) and no band alert, the key holding the first pass's
\* time.
C37_Witness ==
    /\ lastPass.number = 2
    /\ ticks = 1
    /\ alert_cooldown = DefaultAlertCooldown
    /\ Len(lastPass.snapshots) = 1
    /\ lastPass.snapshots[1].boros_implied_apr >= 800
    /\ SentIn(lastPass, "ETHUSDT", "simple_directional", EXIT_LONG)
    /\ ~SentIn(lastPass, "ETHUSDT", "implied_apr_bands", << >>)
    /\ BandKey("ETHUSDT") \in DOMAIN last_alerts
    /\ last_alerts[BandKey("ETHUSDT")] = StartTime

\* C39 (the cooldown starts at the attempt): every alert a pass sends has
\* its key's last-alert time set to the time of the pass, whether the post
\* to the webhook succeeded or not; and an alert other than an exit whose
\* delivery failed in the previous pass is not sent again while less than
\* alert_cooldown seconds have passed since.
C39_CooldownStartsBeforeDelivery ==
    [][PassStep =>
          /\ \A i \in DOMAIN lastPass'.sent :
                 LET a == lastPass'.sent[i]
                     key == AlertKey(a.symbol, a.strategy_type, a.action)
                 IN  /\ key \in DOMAIN last_alerts'
                     /\ last_alerts'[key] = now
          /\ \A i \in DOMAIN lastPass.sent :
                 LET a == lastPass.sent[i]
                     key == AlertKey(a.symbol, a.strategy_type, a.action)
                 IN  (/\ ~a.delivered
                      /\ ~IsExit(a.action)
                      /\ key \in DOMAIN last_alerts
                      /\ now - last_alerts[key] < alert_cooldown) =>
                         ~SentIn(lastPass', a.symbol, a.strategy_type, a.action)]_vars

\* C39 witness: the first pass sent its alerts to a webhook that answered
\* another status than 204; one clock advance later the second pass met the
\* same low rate and sent no band alert, the key holding the first pass's
\* time.
C39_Witness ==
    /\ lastPass.number = 2
    /\ lastPass.failed_before
    /\ ticks = 1
    /\ alert_cooldown = DefaultAlertCooldown
    /\ Len(lastPass.snapshots) = 1
    /\ lastPass.snapshots[1].boros_implied_apr <= 600
    /\ lastPass.sent = << >>
    /\ BandKey("ETHUSDT") \in DOMAIN last_alerts
    /\ last_alerts[BandKey("ETHUSDT")] = StartTime
    /\ now = StartTime + TickSeconds

====
